---- MODULE Spec2Model ----
(***************************************************************************)
(* Layer document, bounded undo/redo history and canvas transforms of the  *)
(* MagicLens editor.  Two generations of the editor component are in the   *)
(* repository: src/App.tsx ("App") and the later one of                    *)
(* src/unnamed/part_001 and src/unnamed/part_002 ("V2").  The variable     *)
(* version says which one a behaviour runs.                                *)
(*                                                                         *)
(* A React handler reads the state of the render it was created in.  A     *)
(* user event runs the handler of the latest render, so it reads the       *)
(* current state; a callback that runs later (the timer of                 *)
(* initEditorWithImage, the onload of an inserted image) still reads the   *)
(* state of the render that started it.  The tasks below keep that         *)
(* captured state.  Layer canvases are objects that brushes change in      *)
(* place and that layer records share: canvases is the heap of them.       *)
(* Pixels are sampled at pixel centres; a colour is a small number, 0 is   *)
(* transparent.  Opacity is in percent.  Pointer positions and crop        *)
(* rectangles are fractions of a pixel in the program: here they are in    *)
(* tenths of a pixel.                                                      *)
(***************************************************************************)
EXTENDS Integers, Sequences, FiniteSets, TLC

VARIABLES
    version,        \* "App" or "V2"
    layers,         \* useState<Layer[]>: sequence of layer records, bottom first
    canvases,       \* heap: canvas handle -> [w, h, px]
    activeLayerId,  \* useState<string | null>
    canvasSize,     \* useState({width, height})
    history,        \* useState<HistoryState[]>
    historyStep,    \* useState<number>(-1), 0-based as in the source
    isDrawing,      \* useState(false)
    isCropping,     \* useState(false)
    cropRect,       \* useState<rect | null>: a set holding at most one rect
    cropInteraction, \* cropInteraction (App) / cropHandle (V2); "none" is null
    cropStart,      \* cropStartRef.current: where the crop drag began
    loadTask,       \* pending initEditorWithImage: reader/img onload not yet run
    timerTask,      \* pending setTimeout(() => saveHistory([bg], w, h), 100)
    insertTask,     \* pending img.onload of handleAddImageLayer / handleApplyResult
    mainCanvas,     \* the canvas on screen (canvasRef.current): a set holding
                    \* at most one surface, empty while the editor is not shown
    needsComposite, \* needsCompositeRef.current
    previewBlendMode, \* useState<GlobalCompositeOperation | null>; "none" is null
    rendered,       \* whether the last step ran renderCompositeCanvas to its end
    loopRuns,       \* whether the next requestAnimationFrame(loop) is scheduled
    editTask,       \* pending editImage requests, by the handler that sent them
    isEditing,      \* useState(false)
    editedImages,   \* useState<string[]>([]): the results on offer
    brushType,      \* useState('pen')
    transform,      \* useState({x: 0, y: 0, scale: 1}): x, y in tenths of a
                    \* pixel, scale in hundredths
    isPanning,      \* useState(false)
    panStart,       \* panStartRef.current
    pinchRef,       \* pinchRef.current (App): a set holding at most one record
    draggedLayerIndex, \* useState<number | null>(null) (V2): a set holding at
                    \* most one index, 1-based
    savedSession,   \* localStorage 'magicLens_session': a set holding at most
                    \* one record
    symmetry,       \* useState('none') (V2)
    radialCount,    \* useState(4) (V2)
    cloneSource,    \* useState<{x, y} | null>(null) (V2): a set holding at
                    \* most one point, in tenths
    isSettingCloneSource, \* useState(false) (V2)
    cloneOffset,    \* cloneOffsetRef.current (V2), in tenths
    nOps,           \* number of editor events so far (exploration budget)
    lastOp          \* the last handler that ran and what it found

docVars  == <<layers, canvases, activeLayerId, canvasSize>>
histVars == <<history, historyStep>>
cropVars == <<isCropping, cropRect, cropInteraction, cropStart>>
uiVars   == <<isDrawing, isCropping, cropRect, cropInteraction, cropStart>>
dispVars == <<mainCanvas, needsComposite, previewBlendMode, rendered, loopRuns>>
editVars == <<editTask, isEditing, editedImages>>
viewVars == <<brushType, transform, isPanning, panStart, pinchRef>>
toolVars == <<draggedLayerIndex, savedSession, symmetry, radialCount>>
cloneVars == <<cloneSource, isSettingCloneSource, cloneOffset>>
vars     == <<version, layers, canvases, activeLayerId, canvasSize, history,
              historyStep, isDrawing, isCropping, cropRect, cropInteraction,
              cropStart, loadTask, timerTask, insertTask, mainCanvas,
              needsComposite, previewBlendMode, rendered, loopRuns, editTask, isEditing,
              editedImages, brushType, transform, isPanning, panStart, pinchRef,
              draggedLayerIndex, savedSession, symmetry, radialCount, cloneSource,
              isSettingCloneSource, cloneOffset, nOps, lastOp>>

(***************************************************************************)
(* Bounds of the exploration and constants of the program.                 *)
(***************************************************************************)
MaxLayers == 2
MaxOps == 3
MaxWindowEvents == 1
MaxIds == 3
HistoryLimitApp == 10
HistoryLimitV2 == 20
NoLayer == 0
PenColour == 3
Black == 4
DefaultWidth == 300
DefaultHeight == 150
Unit == 10
\* the scale of the viewport is counted in hundredths
ScaleUnit == 100
Identity == [x |-> 0, y |-> 0, scale |-> ScaleUnit]
HandleSize == 300

\* where the pointer goes in crop mode, the sizes typed in the resize dialog,
\* the values of the opacity slider and the blend modes picked
CropPoints == {<<0, 0>>, <<4, 10>>, <<10, 10>>}
ResizeSizes == {<<1, 1>>, <<0, 1>>}
BlendModes == {"source-over", "multiply"}
Degrees == {-90, 90}
CropHandles == {"se", "nw"}

Versions == {"App", "V2"}
HistoryLimit(ver) == IF ver = "App" THEN HistoryLimitApp ELSE HistoryLimitV2

Min(a, b) == IF a < b THEN a ELSE b
Max(a, b) == IF a > b THEN a ELSE b

\* where the thumb of the opacity slider is dragged to, in hundredths: on
\* the track, or past either end of it
SliderPositions == {-50, 50, 150}

SliderValueUnclamped(position) == position

\* the value of <input type="range" min="0" max="1" step="0.01">
SliderValue(position) == Max(0, Min(position, 100))

OpacityValues == {SliderValue(position) : position \in SliderPositions}

(***************************************************************************)
(* Pixel surfaces.                                                         *)
(***************************************************************************)
Pixels(w, h) == (0 .. (w - 1)) \X (0 .. (h - 1))

\* document.createElement('canvas') with width and height set: transparent
NewCanvas(w, h) == [w |-> w, h |-> h, px |-> [p \in Pixels(w, h) |-> 0]]

\* the image a file, the camera or a saved session decodes to
SourceImage == [w |-> 2, h |-> 1, px |-> [p \in Pixels(2, 1) |-> p[1] + 1]]

\* getImageData(0, 0, canvas.width, canvas.height) throws IndexSizeError
\* when the width or the height is 0
GetImageDataThrows(c) == c.w = 0 \/ c.h = 0

\* getImageData copies the pixels out of the canvas
GetImageData(c) == [w |-> c.w, h |-> c.h, px |-> c.px]

\* putImageData(imageData, 0, 0): overwrites the part of the canvas the
\* image data covers
PutImageData(c, d) ==
    [c EXCEPT !.px = [p \in Pixels(c.w, c.h) |->
                        IF p \in Pixels(d.w, d.h) THEN d.px[p] ELSE c.px[p]]]

\* drawImage(canvas, ...) throws InvalidStateError when the source canvas
\* has no width or no height
DrawImageThrows(c) == c.w = 0 \/ c.h = 0

\* the colour of src at a pixel, transparent outside it
Sample(src, sx, sy) ==
    IF <<sx, sy>> \in Pixels(src.w, src.h) THEN src.px[<<sx, sy>>] ELSE 0

\* a new dw x dh canvas and drawImage(src, x, y, w, h, 0, 0, dw, dh) on it:
\* the source rectangle, in tenths of a pixel, stretched over the canvas
DrawImageRect(src, x, y, w, h, dw, dh) ==
    [w |-> dw, h |-> dh,
     px |-> [p \in Pixels(dw, dh) |->
               Sample(src,
                      (x * 2 * dw + (2 * p[1] + 1) * w) \div (2 * Unit * dw),
                      (y * 2 * dh + (2 * p[2] + 1) * h) \div (2 * Unit * dh))]]

\* a new dw x dh canvas and drawImage(src, 0, 0, dw, dh) on it
DrawImageStretched(src, dw, dh) ==
    DrawImageRect(src, 0, 0, src.w * Unit, src.h * Unit, dw, dh)

\* a new cw x ch canvas with img fitted inside it, centred, its aspect
\* ratio kept (handleAddImageLayer and handleApplyResult of App)
DrawImageContained(img, cw, ch) ==
    [w |-> cw, h |-> ch,
     px |-> [p \in Pixels(cw, ch) |->
               IF img.w * ch > cw * img.h
               THEN LET y2 == (2 * p[2] + 1) * img.w - (ch * img.w - cw * img.h)
                    IN  IF 0 <= y2 /\ y2 < 2 * cw * img.h
                        THEN Sample(img, ((2 * p[1] + 1) * img.w) \div (2 * cw),
                                    y2 \div (2 * cw))
                        ELSE 0
               ELSE LET x2 == (2 * p[1] + 1) * img.h - (cw * img.h - ch * img.w)
                    IN  IF 0 <= x2 /\ x2 < 2 * ch * img.w
                        THEN Sample(img, x2 \div (2 * ch),
                                    ((2 * p[2] + 1) * img.h) \div (2 * ch))
                        ELSE 0]]

\* a new dw x dh canvas with src drawn about its centre, turned by deg
RotatedCanvas(src, deg, dw, dh) ==
    [w |-> dw, h |-> dh,
     px |-> [p \in Pixels(dw, dh) |->
               IF deg = 90
               THEN Sample(src, p[2] - (dh - src.w) \div 2,
                           (dw + src.h) \div 2 - 1 - p[1])
               ELSE Sample(src, (dh + src.w) \div 2 - 1 - p[2],
                           p[1] - (dw - src.h) \div 2)]]

\* a brush dab: the pixel under the pointer takes the brush colour
Dab(c, p, colour) ==
    IF p \in Pixels(c.w, c.h) THEN [c EXCEPT !.px[p] = colour] ELSE c

\* clearRect(0, 0, canvas.width, canvas.height)
ClearRect(c) == NewCanvas(c.w, c.h)

\* Math.round and Math.floor of a length given in tenths
Round(t) == (t + 5) \div Unit
Floor(t) == t \div Unit

(***************************************************************************)
(* Heap of canvases and fresh names.                                       *)
(***************************************************************************)
FreeHandles(heap, n) ==
    {k \in 1 .. (Cardinality(DOMAIN heap) + n) : k \notin DOMAIN heap}

\* the i-th unused handle
NthFree(heap, i, n) ==
    CHOOSE k \in FreeHandles(heap, n) :
        Cardinality({j \in FreeHandles(heap, n) : j < k}) = i - 1

HandlesOf(ls) == {ls[i].canvas : i \in DOMAIN ls}

TaskHandles(lt, tt, it) ==
    UNION ({HandlesOf(t.layers) : t \in it} \cup {HandlesOf(t.layers) : t \in tt})

\* canvases nothing refers to any more are garbage
Collect(heap, ls, lt, tt, it) ==
    [k \in (DOMAIN heap) \cap (HandlesOf(ls) \cup TaskHandles(lt, tt, it)) |-> heap[k]]

Extend(heap, k, c) == [j \in (DOMAIN heap) \cup {k} |-> IF j = k THEN c ELSE heap[j]]

IdsOf(ls) == {ls[i].id : i \in DOMAIN ls}

\* Math.random().toString(36): an id no layer, history state or pending
\* callback carries
UsedIds ==
    IdsOf(layers) \cup {activeLayerId}
    \cup UNION {IdsOf(history[i].layers) : i \in DOMAIN history}
    \cup UNION {IdsOf(t.layers) : t \in timerTask \cup insertTask}
    \cup UNION {UNION {IdsOf(t.history[i].layers) : i \in DOMAIN t.history} :
                    t \in loadTask \cup timerTask \cup insertTask}

FreshId == CHOOSE k \in 1 .. (Cardinality(UsedIds) + 1) : k \notin UsedIds

\* the exploration stops making layers when the ids run out
IdsLeft == FreshId <= MaxIds

\* createLayer(name, width, height): the record; its canvas is put on the heap
\* by the caller
createLayer(name, id, handle) ==
    [id |-> id, name |-> name, visible |-> TRUE, opacity |-> 100,
     blendMode |-> "source-over", canvas |-> handle]

\* `Layer ${n}`, `Image ${n}`, "Background"
Name(kind, n) == <<kind, n>>

(***************************************************************************)
(* History.                                                                *)
(***************************************************************************)
LayerSnapshot(l, heap) ==
    [id |-> l.id, name |-> l.name, visible |-> l.visible, opacity |-> l.opacity,
     blendMode |-> l.blendMode, imageData |-> GetImageData(heap[l.canvas])]

HistoryState(ls, heap, w, h) ==
    [layers |-> [i \in DOMAIN ls |-> LayerSnapshot(ls[i], heap)],
     size |-> [width |-> w, height |-> h]]

\* history.slice(0, historyStep + 1)
Slice(hist, n) == SubSeq(hist, 1, Min(Max(n, 0), Len(hist)))

\* saveHistory(currentLayers, w, h) run in a render whose history and
\* historyStep are hist and step, while the state holds curStep: the new
\* history and step.  getImageData throwing leaves both as they are.
\* saveHistory with the oldest state dropped one push too late
saveHistoryLateShift(ver, ls, heap, w, h, hist, step, curHist, curStep) ==
    LET newHistory == Append(Slice(hist, step + 1), HistoryState(ls, heap, w, h))
    IN  IF Len(newHistory) > HistoryLimit(ver) + 1
        THEN [threw |-> FALSE, history |-> Tail(newHistory), historyStep |-> curStep]
        ELSE [threw |-> FALSE, history |-> newHistory,
              historyStep |-> IF ver = "App" THEN curStep + 1 ELSE Len(newHistory) - 1]

SaveThrows(ls, heap) == \E i \in DOMAIN ls : GetImageDataThrows(heap[ls[i].canvas])

saveHistory(ver, ls, heap, w, h, hist, step, curHist, curStep) ==
    IF SaveThrows(ls, heap)
    THEN [threw |-> TRUE, history |-> curHist, historyStep |-> curStep]
    ELSE LET newHistory == Append(Slice(hist, step + 1), HistoryState(ls, heap, w, h))
         IN  IF Len(newHistory) > HistoryLimit(ver)
             THEN [threw |-> FALSE, history |-> Tail(newHistory),
                   historyStep |-> curStep]
             ELSE [threw |-> FALSE, history |-> newHistory,
                   historyStep |-> IF ver = "App" THEN curStep + 1
                                   ELSE Len(newHistory) - 1]

(***************************************************************************)
(* restoreHistoryStep (App) and restoreStep (V2): the document rebuilt     *)
(* from history[stepIndex], on fresh canvases.  found is FALSE when the    *)
(* index names no state (the early return).                                *)
(***************************************************************************)
RestoredCanvas(ver, s, size) ==
    IF ver = "App" /\ (s.imageData.w # size.width \/ s.imageData.h # size.height)
    THEN PutImageData(NewCanvas(s.imageData.w, s.imageData.h), s.imageData)
    ELSE PutImageData(NewCanvas(size.width, size.height), s.imageData)

RestoredLayer(s, handle) ==
    [id |-> s.id, name |-> s.name, visible |-> s.visible, opacity |-> s.opacity,
     blendMode |-> s.blendMode, canvas |-> handle]

\* the active layer left alone by a restore
RestoredActiveKept(ver, restored, active) == active

RestoredActive(ver, restored, active) ==
    IF \E i \in DOMAIN restored : restored[i].id = active THEN active
    ELSE IF Len(restored) > 0 THEN restored[Len(restored)].id
    ELSE IF ver = "App" THEN active ELSE NoLayer

restoreHistoryStep(ver, hist, stepIndex, heap, ls, size, active) ==
    IF stepIndex < 0 \/ stepIndex >= Len(hist)
    THEN [found |-> FALSE, layers |-> ls, heap |-> heap, canvasSize |-> size,
          activeLayerId |-> active]
    ELSE LET state == hist[stepIndex + 1]
             n == Len(state.layers)
             restored == [i \in 1 .. n |->
                            RestoredLayer(state.layers[i], NthFree(heap, i, n))]
             newHeap == [k \in (DOMAIN heap) \cup HandlesOf(restored) |->
                            IF k \in DOMAIN heap THEN heap[k]
                            ELSE LET i == CHOOSE j \in 1 .. n : restored[j].canvas = k
                                 IN  RestoredCanvas(ver, state.layers[i], state.size)]
         IN  [found |-> TRUE, layers |-> restored, heap |-> newHeap,
              canvasSize |-> state.size,
              activeLayerId |-> RestoredActive(ver, restored, active)]

(***************************************************************************)
(* Undo and redo as functions of the state: the document and the step they *)
(* leave.  In App handleUndo sets the step whether or not a state was      *)
(* found; restoreStep of V2 sets the step itself, after the early return.  *)
(***************************************************************************)
Restored(ver, hist, newStep, step, heap, ls, size, active) ==
    LET r == restoreHistoryStep(ver, hist, newStep, heap, ls, size, active)
    IN  [layers |-> r.layers, heap |-> r.heap, canvasSize |-> r.canvasSize,
         activeLayerId |-> r.activeLayerId,
         historyStep |-> IF ver = "App" \/ r.found THEN newStep ELSE step]

Kept(step, heap, ls, size, active) ==
    [layers |-> ls, heap |-> heap, canvasSize |-> size,
     activeLayerId |-> active, historyStep |-> step]

\* handleUndo without its guard
undoAnyStep(ver, hist, step, heap, ls, size, active) ==
    Restored(ver, hist, step - 1, step, heap, ls, size, active)

undo(ver, hist, step, heap, ls, size, active) ==
    IF step > 0
    THEN Restored(ver, hist, step - 1, step, heap, ls, size, active)
    ELSE Kept(step, heap, ls, size, active)

redo(ver, hist, step, heap, ls, size, active) ==
    IF step < Len(hist) - 1
    THEN Restored(ver, hist, step + 1, step, heap, ls, size, active)
    ELSE Kept(step, heap, ls, size, active)

(***************************************************************************)
(* The state a handler leaves: every handler ends by dropping the canvases *)
(* nothing refers to, and notes what ran, the step and the length it found *)
(* and whether it pushed a history state.                                  *)
(***************************************************************************)
Note(op, snap) ==
    lastOp' = [op |-> op, step |-> historyStep, len |-> Len(history), snap |-> snap]

SetDoc(ls, heap, lt, tt, it) ==
    /\ layers' = ls
    /\ canvases' = Collect(heap, ls, lt, tt, it)

SetHistory(r) ==
    /\ history' = r.history
    /\ historyStep' = r.historyStep

\* saveHistory(ls, w, h) called by the handler of the latest render
Snapshot(op, ls, heap, w, h) ==
    LET r == saveHistory(version, ls, heap, w, h, history, historyStep,
                         history, historyStep)
    IN  SetHistory(r) /\ Note(op, ~r.threw)

\* the editor is on screen: the upload screen shows while there is no layer
EditorMounted == Len(layers) > 0

\* a user event: the initial snapshot's timer runs 100 ms after the document
\* opened, so only so many events fit in before it
UserEvent ==
    /\ \A t \in timerTask : t.elapsed < MaxWindowEvents
    /\ timerTask' = {[t EXCEPT !.elapsed = @ + 1] : t \in timerTask}

\* the index of the layer a handler finds under activeLayerId
ActiveIndexOrTopmost ==
    IF activeLayerId \in IdsOf(layers)
    THEN {i \in DOMAIN layers : layers[i].id = activeLayerId}
    ELSE {i \in DOMAIN layers : i = Len(layers)}
ActiveIndex == {i \in DOMAIN layers : layers[i].id = activeLayerId}

(***************************************************************************)
(* Opening and closing a document.                                         *)
(***************************************************************************)
\* handleEditFileChange / capturePhoto / loadSession: offered while no
\* document is open; the callbacks created here keep this render's history
handleEditFileChange ==
    /\ ~EditorMounted
    /\ IdsLeft
    /\ loadTask = {} /\ timerTask = {}
    /\ loadTask' = {[history |-> history, historyStep |-> historyStep]}
    /\ editedImages' = IF version = "App" THEN <<>> ELSE editedImages
    /\ UNCHANGED <<editTask, isEditing>>
    /\ Note("handleEditFileChange", FALSE)
    /\ UNCHANGED <<version, docVars, histVars, uiVars, timerTask, insertTask>>

\* saveSession: the composite image, the brush and the transform go to
\* localStorage
saveSession ==
    /\ EditorMounted
    /\ savedSession' = {[brushType |-> brushType, transform |-> transform]}
    /\ UNCHANGED <<draggedLayerIndex, symmetry, radialCount>>
    /\ Note("saveSession", FALSE)
    /\ UserEvent
    /\ UNCHANGED <<version, docVars, histVars, uiVars, loadTask, insertTask>>

\* loadSession, offered on the upload screen once a session was saved: App
\* takes the brush and the transform of the session, both open its image
loadSession ==
    \E session \in savedSession :
        /\ ~EditorMounted
        /\ IdsLeft
        /\ loadTask = {} /\ timerTask = {}
        /\ loadTask' = {[history |-> history, historyStep |-> historyStep]}
        /\ brushType' = IF version = "App" THEN session.brushType ELSE brushType
        /\ transform' = IF version = "App" THEN session.transform ELSE transform
        /\ UNCHANGED <<isPanning, panStart, pinchRef>>
        /\ UNCHANGED editVars
        /\ Note("loadSession", FALSE)
        /\ UNCHANGED <<version, docVars, histVars, uiVars, timerTask, insertTask>>

\* img.onload of initEditorWithImage
initEditorWithImage ==
    \E t \in loadTask :
        IdsLeft /\
        LET img == SourceImage
            handle == NthFree(canvases, 1, 1)
            bgLayer == createLayer(Name("Background", 0), FreshId, handle)
            heap == Extend(canvases, handle, img)
            timer == [layers |-> <<bgLayer>>, w |-> img.w, h |-> img.h,
                      elapsed |-> 0,
                      history |-> t.history, historyStep |-> t.historyStep]
        IN  /\ canvasSize' = [width |-> img.w, height |-> img.h]
            /\ SetDoc(<<bgLayer>>, heap, {}, {timer}, insertTask)
            /\ activeLayerId' = bgLayer.id
            /\ history' = <<>>
            /\ historyStep' = -1
            /\ timerTask' = {timer}
            /\ loadTask' = {}
            /\ transform' = Identity
            /\ UNCHANGED <<brushType, isPanning, panStart, pinchRef>>
            /\ Note("initEditorWithImage", FALSE)
            /\ UNCHANGED <<version, uiVars, insertTask>>

\* the timer of initEditorWithImage: saveHistory([bgLayer], width, height)
\* of the render that opened the file
initialSnapshot ==
    \E t \in timerTask :
        LET r == saveHistory(version, t.layers, canvases, t.w, t.h,
                             t.history, t.historyStep, history, historyStep)
        IN  /\ SetHistory(r)
            /\ timerTask' = {}
            /\ canvases' = Collect(canvases, layers, loadTask, {}, insertTask)
            /\ Note("initialSnapshot", ~r.threw)
            /\ UNCHANGED <<version, layers, activeLayerId, canvasSize, uiVars,
                           loadTask, insertTask>>

\* the Cancel / Close Session button, not shown in crop mode
closeSession ==
    /\ EditorMounted
    /\ ~isCropping
    /\ SetDoc(<<>>, canvases, loadTask, timerTask, insertTask)
    /\ history' = <<>>
    /\ historyStep' = -1
    /\ Note("closeSession", FALSE)
    /\ UserEvent
    /\ UNCHANGED <<version, activeLayerId, canvasSize, uiVars, loadTask, insertTask>>

(***************************************************************************)
(* Undo and redo.                                                          *)
(***************************************************************************)
SetRestored(r) ==
    /\ SetDoc(r.layers, r.heap, loadTask, timerTask, insertTask)
    /\ canvasSize' = r.canvasSize
    /\ activeLayerId' = r.activeLayerId
    /\ historyStep' = r.historyStep
    /\ UNCHANGED history

handleUndo ==
    /\ EditorMounted
    /\ SetRestored(undo(version, history, historyStep, canvases, layers,
                        canvasSize, activeLayerId))
    /\ Note("handleUndo", FALSE)
    /\ UserEvent
    /\ UNCHANGED <<version, uiVars, loadTask, insertTask>>

handleRedo ==
    /\ EditorMounted
    /\ SetRestored(redo(version, history, historyStep, canvases, layers,
                        canvasSize, activeLayerId))
    /\ Note("handleRedo", FALSE)
    /\ UserEvent
    /\ UNCHANGED <<version, uiVars, loadTask, insertTask>>

(***************************************************************************)
(* The layer panel.  The move and delete buttons are rendered for the      *)
(* active layer only, the delete button only while there is more than one  *)
(* layer, and a move button is disabled at its end of the list.            *)
(***************************************************************************)
\* layers.map(l => l.id === id ? { ...l, [field]: value } : l)
WithLayer(id, field, value) ==
    [i \in DOMAIN layers |->
        IF layers[i].id = id THEN [layers[i] EXCEPT ![field] = value] ELSE layers[i]]

\* the visible flag of every layer named id
VisibleOf(id) == {layers[i].visible : i \in {k \in DOMAIN layers : layers[k].id = id}}

\* setLayers(next); saveHistory(next)
SetLayersAndSave(op, next) ==
    /\ SetDoc(next, canvases, loadTask, timerTask, insertTask)
    /\ Snapshot(op, next, canvases, canvasSize.width, canvasSize.height)

handleToggleVisibility(id) ==
    \E visible \in VisibleOf(id) :
        /\ EditorMounted
        /\ SetLayersAndSave("handleToggleVisibility", WithLayer(id, "visible", ~visible))
        /\ UserEvent
        /\ UNCHANGED <<version, activeLayerId, canvasSize, uiVars, loadTask, insertTask>>

\* onClick={() => setActiveLayerId(layer.id)} of a layer row
selectLayer(id) ==
    /\ EditorMounted
    /\ activeLayerId' = id
    /\ Note("selectLayer", FALSE)
    /\ UserEvent
    /\ UNCHANGED <<version, layers, canvases, canvasSize, histVars, uiVars,
                   loadTask, insertTask>>

handleAddLayer ==
    /\ EditorMounted
    /\ Len(layers) < MaxLayers
    /\ IdsLeft
    /\ LET handle == NthFree(canvases, 1, 1)
           newLayer == createLayer(Name("Layer", Len(layers) + 1), FreshId, handle)
           heap == Extend(canvases, handle,
                          NewCanvas(canvasSize.width, canvasSize.height))
           newLayers == Append(layers, newLayer)
       IN  /\ SetDoc(newLayers, heap, loadTask, timerTask, insertTask)
           /\ activeLayerId' = newLayer.id
           /\ Snapshot("handleAddLayer", newLayers, heap,
                       canvasSize.width, canvasSize.height)
    /\ UserEvent
    /\ UNCHANGED <<version, canvasSize, uiVars, loadTask, insertTask>>

Filter(ls, id) == SelectSeq(ls, LAMBDA l : l.id # id)

\* the id kept active, or the topmost of what is left; V2 falls back to null
ActiveAfterDelete(ver, id, active, newLayers) ==
    IF active # id THEN active
    ELSE IF Len(newLayers) > 0 THEN newLayers[Len(newLayers)].id
    ELSE NoLayer

DeleteOfferedAlways(ls, active, id) == TRUE

\* the row of a layer shows the delete button
DeleteOffered(ls, active, id) == active = id /\ Len(ls) > 1

handleDeleteLayer(id) ==
    /\ EditorMounted
    /\ DeleteOffered(layers, activeLayerId, id)
    /\ IF version = "App" /\ Len(layers) <= 1
       THEN UNCHANGED <<docVars, histVars>> /\ Note("handleDeleteLayer", FALSE)
       ELSE LET newLayers == Filter(layers, id)
            IN  /\ SetLayersAndSave("handleDeleteLayer", newLayers)
                /\ activeLayerId' =
                       ActiveAfterDelete(version, id, activeLayerId, newLayers)
                /\ UNCHANGED canvasSize
    /\ UserEvent
    /\ UNCHANGED <<version, uiVars, loadTask, insertTask>>

Swap(ls, i, j) ==
    [k \in DOMAIN ls |-> IF k = i THEN ls[j] ELSE IF k = j THEN ls[i] ELSE ls[k]]

\* index is 1-based here; "up" is towards the top of the stack
handleMoveLayer(index, direction) ==
    /\ EditorMounted
    /\ index \in ActiveIndex
    /\ direction = "up" => index < Len(layers)
    /\ direction = "down" => index > 1
    /\ IF direction = "up" /\ index < Len(layers)
       THEN SetLayersAndSave("handleMoveLayer", Swap(layers, index, index + 1))
       ELSE IF direction = "down" /\ index > 1
       THEN SetLayersAndSave("handleMoveLayer", Swap(layers, index, index - 1))
       ELSE IF version = "App"
       THEN UNCHANGED <<layers, canvases, histVars>> /\ Note("handleMoveLayer", FALSE)
       ELSE SetLayersAndSave("handleMoveLayer", layers)
    /\ UserEvent
    /\ UNCHANGED <<version, activeLayerId, canvasSize, uiVars, loadTask, insertTask>>

(***************************************************************************)
(* Dragging a layer row onto another (V2).                                 *)
(***************************************************************************)
\* what an index past the end of the list reads: undefined
Undefined == [id |-> NoLayer]

RemoveAt(ls, i) == [k \in 1 .. (Len(ls) - 1) |-> IF k < i THEN ls[k] ELSE ls[k + 1]]

InsertAt(ls, i, l) ==
    [k \in 1 .. (Len(ls) + 1) |-> IF k < i THEN ls[k] ELSE IF k = i THEN l ELSE ls[k - 1]]

DroppedBySwap(ls, from, to) == Swap(ls, from, to)

\* [removed] = newLayers.splice(from, 1); newLayers.splice(to, 0, removed);
\* the indices 1-based
Dropped(ls, from, to) ==
    LET has == from \in DOMAIN ls
        rest == IF has THEN RemoveAt(ls, from) ELSE ls
    IN  InsertAt(rest, Min(to, Len(rest) + 1), IF has THEN ls[from] ELSE Undefined)

\* onDragStart of a layer row
layerDragStart(index) ==
    /\ EditorMounted
    /\ version = "V2"
    /\ draggedLayerIndex = {}
    /\ draggedLayerIndex' = {index}
    /\ UNCHANGED <<savedSession, symmetry, radialCount>>
    /\ Note("layerDragStart", FALSE)
    /\ UserEvent
    /\ UNCHANGED <<version, docVars, histVars, uiVars, loadTask, insertTask>>

\* onDragEnd of the dragged row, the drag given up
layerDragEnd ==
    /\ EditorMounted
    /\ version = "V2"
    /\ draggedLayerIndex # {}
    /\ draggedLayerIndex' = {}
    /\ UNCHANGED <<savedSession, symmetry, radialCount>>
    /\ Note("layerDragEnd", FALSE)
    /\ UserEvent
    /\ UNCHANGED <<version, docVars, histVars, uiVars, loadTask, insertTask>>

\* onDrop of a layer row: a dragged row, or something from outside the page
\* (draggedLayerIndex null)
handleLayerDrop(targetIndex) ==
    /\ EditorMounted
    /\ version = "V2"
    /\ IF draggedLayerIndex = {}
       THEN /\ UNCHANGED <<layers, canvases, histVars, draggedLayerIndex>>
            /\ lastOp' = [op |-> "handleLayerDrop", step |-> historyStep,
                          len |-> Len(history), snap |-> FALSE, to |-> targetIndex]
       ELSE LET from == CHOOSE i \in draggedLayerIndex : TRUE
                newLayers == Dropped(layers, from, targetIndex)
                threw == \E k \in DOMAIN newLayers : newLayers[k] = Undefined
                r == IF threw
                     THEN [threw |-> TRUE, history |-> history,
                           historyStep |-> historyStep]
                     ELSE saveHistory(version, newLayers, canvases, canvasSize.width,
                                      canvasSize.height, history, historyStep,
                                      history, historyStep)
            IN  /\ SetDoc(newLayers, canvases, loadTask, timerTask, insertTask)
                /\ draggedLayerIndex' = {}
                /\ SetHistory(r)
                /\ lastOp' = [op |-> "handleLayerDrop", step |-> historyStep,
                              len |-> Len(history), snap |-> ~r.threw,
                              to |-> targetIndex]
    /\ UserEvent
    /\ UNCHANGED <<version, activeLayerId, canvasSize, uiVars, loadTask, insertTask,
                   savedSession, symmetry, radialCount>>

\* the opacity slider of the active layer (App): onChange
handleLayerOpacityChange(id, opacity) ==
    /\ EditorMounted
    /\ version = "App"
    /\ id \in IdsOf(layers) /\ id = activeLayerId
    /\ SetDoc(WithLayer(id, "opacity", opacity), canvases, loadTask, timerTask, insertTask)
    /\ Note("handleLayerOpacityChange", FALSE)
    /\ UserEvent
    /\ UNCHANGED <<version, activeLayerId, canvasSize, histVars, uiVars,
                   loadTask, insertTask>>

\* onMouseUp / onTouchEnd of the slider, with the value it shows:
\* saveHistory(newLayers) without setLayers
handleLayerOpacityCommit(id, opacity) ==
    /\ EditorMounted
    /\ version = "App"
    /\ id \in IdsOf(layers) /\ id = activeLayerId
    /\ \E i \in ActiveIndex : opacity = layers[i].opacity
    /\ Snapshot("handleLayerOpacityCommit", WithLayer(id, "opacity", opacity), canvases,
                canvasSize.width, canvasSize.height)
    /\ UserEvent
    /\ UNCHANGED <<version, docVars, uiVars, loadTask, insertTask>>

\* handleLayerBlendChange (App) / handleSetBlendMode (V2)
handleLayerBlendChange(id, blendMode) ==
    /\ EditorMounted
    /\ id \in IdsOf(layers)
    /\ version = "App" => id = activeLayerId
    /\ SetLayersAndSave("handleLayerBlendChange", WithLayer(id, "blendMode", blendMode))
    /\ UserEvent
    /\ UNCHANGED <<version, activeLayerId, canvasSize, uiVars, loadTask, insertTask>>

handleClearLayer ==
    /\ EditorMounted
    /\ IF ActiveIndex # {}
       THEN LET i == CHOOSE k \in ActiveIndex : TRUE
                heap == [canvases EXCEPT ![layers[i].canvas] = ClearRect(@)]
            IN  /\ canvases' = heap
                /\ Snapshot("handleClearLayer", layers, heap,
                            canvasSize.width, canvasSize.height)
       ELSE UNCHANGED <<canvases, histVars>> /\ Note("handleClearLayer", FALSE)
    /\ UserEvent
    /\ UNCHANGED <<version, layers, activeLayerId, canvasSize, uiVars,
                   loadTask, insertTask>>

(***************************************************************************)
(* The pointer on the canvas: a brush stroke, or a drag of the crop        *)
(* rectangle in crop mode.                                                 *)
(***************************************************************************)
Rect(x, y, w, h) == [x |-> x, y |-> y, w |-> w, h |-> h]

\* where the pointer can be: anywhere in crop mode, on a pixel otherwise
PointerPoints ==
    IF isCropping THEN CropPoints
    ELSE {<<Unit * p[1] + Unit \div 2, Unit * p[2] + Unit \div 2>> :
              p \in Pixels(canvasSize.width, canvasSize.height)}

PixelAt(pt) == <<pt[1] \div Unit, pt[2] \div Unit>>

Near(pt, cx, cy) ==
    (pt[1] - cx) * (pt[1] - cx) + (pt[2] - cy) * (pt[2] - cy) < HandleSize * HandleSize

\* the crop interaction a pointer-down on the canvas starts in App
HitInteraction(pt, r) ==
    IF Near(pt, r.x, r.y) THEN "nw"
    ELSE IF Near(pt, r.x + r.w, r.y) THEN "ne"
    ELSE IF Near(pt, r.x, r.y + r.h) THEN "sw"
    ELSE IF Near(pt, r.x + r.w, r.y + r.h) THEN "se"
    ELSE IF r.x <= pt[1] /\ pt[1] <= r.x + r.w /\ r.y <= pt[2] /\ pt[2] <= r.y + r.h
    THEN "move"
    ELSE "create"

Abs(n) == IF n < 0 THEN -n ELSE n

\* the rectangle a pointer-move of App leaves, from the rectangle and the
\* point the drag began with
DraggedApp(interaction, start, pt) ==
    LET dx == pt[1] - start.x
        dy == pt[2] - start.y
        r == start.rect
        n == CASE interaction = "create" -> Rect(r.x, r.y, dx, dy)
               [] interaction = "move" -> Rect(r.x + dx, r.y + dy, r.w, r.h)
               [] interaction = "se" -> Rect(r.x, r.y, r.w + dx, r.h + dy)
               [] interaction = "sw" -> Rect(r.x + dx, r.y, r.w - dx, r.h + dy)
               [] interaction = "ne" -> Rect(r.x, r.y + dy, r.w + dx, r.h - dy)
               [] interaction = "nw" -> Rect(r.x + dx, r.y + dy, r.w - dx, r.h - dy)
    IN  Rect(IF n.w < 0 THEN n.x + n.w ELSE n.x, IF n.h < 0 THEN n.y + n.h ELSE n.y,
             Abs(n.w), Abs(n.h))

\* the rectangle a pointer-move of V2 leaves, from the handle held
DraggedV2(handle, r, pt) ==
    LET e == handle \in {"ne", "e", "se"}
        w == handle \in {"nw", "w", "sw"}
        s == handle \in {"se", "s", "sw"}
        n == handle \in {"nw", "n", "ne"}
        w1 == IF e THEN Max(Unit, pt[1] - r.x) ELSE r.w
        moveW == w /\ w1 + (r.x - pt[1]) > Unit
        h1 == IF s THEN Max(Unit, pt[2] - r.y) ELSE r.h
        moveH == n /\ h1 + (r.y - pt[2]) > Unit
    IN  Rect(IF moveW THEN pt[1] ELSE r.x, IF moveH THEN pt[2] ELSE r.y,
             IF moveW THEN w1 + (r.x - pt[1]) ELSE w1,
             IF moveH THEN h1 + (r.y - pt[2]) ELSE h1)

(***************************************************************************)
(* Symmetry (V2): a stroke is repeated at the mirror images or at the      *)
(* rotations of the pointer about the centre of the canvas.  Points are in *)
(* tenths of a pixel; Math.cos and Math.sin are taken in thousandths and a *)
(* rotated offset is rounded to the tenth.                                 *)
(***************************************************************************)
SymmetryModes == {"none", "vertical", "horizontal", "radial"}

\* the radial counts the slider is set to (it offers 2 to 12)
RadialCounts == {2, 3, 4, 6}

\* Math.cos(2 * Math.PI / count) and Math.sin(2 * Math.PI / count)
Cos(count) == CASE count = 2 -> -1000 [] count = 3 -> -500 [] count = 4 -> 0
                [] count = 6 -> 500

Sin(count) == CASE count = 2 -> 0 [] count = 3 -> 866 [] count = 4 -> 1000
                [] count = 6 -> 866

RoundedDiv(a, b) == (2 * a + b) \div (2 * b)

\* nx = dx * cos - dy * sin; ny = dx * sin + dy * cos
Turned(count, d) ==
    <<RoundedDiv(d[1] * Cos(count) - d[2] * Sin(count), 1000),
      RoundedDiv(d[1] * Sin(count) + d[2] * Cos(count), 1000)>>

\* the points the loop pushes from its round i on, d the offset of the
\* point pushed last
RECURSIVE RadialPointsOneMore(_, _, _, _, _)
RadialPointsOneMore(count, cx, cy, d, i) ==
    IF i > count THEN <<>>
    ELSE LET n == Turned(count, d)
         IN  <<<<cx + n[1], cy + n[2]>>>> \o RadialPointsOneMore(count, cx, cy, n, i + 1)

RECURSIVE RadialPoints(_, _, _, _, _)
RadialPoints(count, cx, cy, d, i) ==
    IF i >= count THEN <<>>
    ELSE LET n == Turned(count, d)
         IN  <<<<cx + n[1], cy + n[2]>>>> \o RadialPoints(count, cx, cy, n, i + 1)

getSymmetricPoints(mode, count, size, pt) ==
    LET cx == (size.width * Unit) \div 2
        cy == (size.height * Unit) \div 2
    IN  CASE mode = "vertical" -> <<pt, <<2 * cx - pt[1], pt[2]>>>>
          [] mode = "horizontal" -> <<pt, <<pt[1], 2 * cy - pt[2]>>>>
          [] mode = "radial" ->
                <<pt>> \o RadialPoints(count, cx, cy, <<pt[1] - cx, pt[2] - cy>>, 1)
          [] OTHER -> <<pt>>

\* the buttons of the symmetry section
setSymmetry(mode) ==
    /\ EditorMounted
    /\ version = "V2"
    /\ symmetry' = mode
    /\ UNCHANGED <<draggedLayerIndex, savedSession, radialCount>>
    /\ Note("setSymmetry", FALSE)
    /\ UserEvent
    /\ UNCHANGED <<version, docVars, histVars, uiVars, loadTask, insertTask>>

\* the slider "Radial Slices", shown while the symmetry is radial
setRadialCount(count) ==
    /\ EditorMounted
    /\ version = "V2"
    /\ symmetry = "radial"
    /\ radialCount' = count
    /\ UNCHANGED <<draggedLayerIndex, savedSession, symmetry>>
    /\ Note("setRadialCount", FALSE)
    /\ UserEvent
    /\ UNCHANGED <<version, docVars, histVars, uiVars, loadTask, insertTask>>

\* the points a stroke is painted at
StrokePoints(pt) ==
    IF version = "V2" THEN getSymmetricPoints(symmetry, radialCount, canvasSize, pt)
    ELSE <<pt>>

RECURSIVE Dabs(_, _, _)
Dabs(c, points, colour) ==
    IF points = <<>> THEN c
    ELSE Dabs(Dab(c, PixelAt(Head(points)), colour), Tail(points), colour)

\* the brush on the active layer's canvas, in place
Painted(pt) ==
    LET i == CHOOSE k \in ActiveIndex : TRUE
    IN  [canvases EXCEPT ![layers[i].canvas] = Dabs(@, StrokePoints(pt), PenColour)]

\* what was drawn on pixel p of the main canvas
PixelOf(out, p) == IF p \in DOMAIN out.px THEN out.px[p] ELSE <<>>

\* the colour a pixel of the main canvas shows, taken to be the one drawn
\* last on it
ShownColour(drawn) == IF drawn = <<>> THEN 0 ELSE drawn[Len(drawn)].colour

\* cloneOffsetRef.current = {x: cloneSource.x - x, y: cloneSource.y - y}
CloneOffset(source, pt, old) == [x |-> source[1] - pt[1], y |-> source[2] - pt[2]]

\* paintClone: at every point the brush takes what the main canvas shows at
\* the point moved by the offset
RECURSIVE paintClone(_, _, _, _)
paintClone(c, points, off, out) ==
    IF points = <<>> THEN c
    ELSE LET p == Head(points)
             colour == ShownColour(PixelOf(out, PixelAt(<<p[1] + off.x, p[2] + off.y>>)))
         IN  paintClone(IF colour = 0 THEN c ELSE Dab(c, PixelAt(p), colour),
                        Tail(points), off, out)

\* the clone stamp is the brush (V2)
CloneBrush == version = "V2" /\ brushType = "clone"

\* a pointer-down of the clone stamp that sets the source and returns
SetsCloneSource == CloneBrush /\ (isSettingCloneSource \/ cloneSource = {})

\* the stroke on the active layer's canvas, in place, with the brush or with
\* the clone stamp at offset off
Stroked(pt, off) ==
    IF CloneBrush /\ cloneSource # {} /\ mainCanvas # {}
    THEN LET i == CHOOSE k \in ActiveIndex : TRUE
         IN  [canvases EXCEPT ![layers[i].canvas] =
                  paintClone(@, StrokePoints(pt), off, CHOOSE c \in mainCanvas : TRUE)]
    ELSE IF CloneBrush THEN canvases
    ELSE Painted(pt)

\* the button "Set Clone Source" (V2), shown while the clone stamp is the
\* brush
setIsSettingCloneSource ==
    /\ EditorMounted
    /\ CloneBrush
    /\ ~isSettingCloneSource
    /\ isSettingCloneSource' = TRUE
    /\ UNCHANGED <<cloneSource, cloneOffset>>
    /\ Note("setIsSettingCloneSource", FALSE)
    /\ UserEvent
    /\ UNCHANGED <<version, docVars, histVars, uiVars, loadTask, insertTask>>

handlePointerDown(pt) ==
    /\ EditorMounted
    /\ IF isCropping
       THEN /\ IF version = "App"
               THEN LET interaction == IF cropRect = {} THEN "create"
                                       ELSE HitInteraction(pt, CHOOSE r \in cropRect : TRUE)
                        rect == IF interaction = "create" THEN Rect(pt[1], pt[2], 0, 0)
                                ELSE CHOOSE r \in cropRect : TRUE
                    IN  /\ cropRect' = {rect}
                        /\ cropInteraction' = interaction
                        /\ cropStart' = {[x |-> pt[1], y |-> pt[2], rect |-> rect]}
               ELSE IF cropRect = {}
               THEN /\ cropRect' = {Rect(pt[1], pt[2], Unit, Unit)}
                    /\ cropInteraction' = "se"
                    /\ UNCHANGED cropStart
               ELSE UNCHANGED <<cropRect, cropInteraction, cropStart>>
            /\ UNCHANGED <<canvases, isDrawing>>
            /\ UNCHANGED <<isPanning, panStart>>
            /\ UNCHANGED cloneVars
       ELSE /\ IF SetsCloneSource
               THEN /\ cloneSource' = {pt}
                    /\ isSettingCloneSource' = FALSE
                    /\ UNCHANGED cloneOffset
                    /\ UNCHANGED <<canvases, isDrawing, isPanning, panStart>>
               ELSE /\ cloneOffset' = IF CloneBrush
                                      THEN CloneOffset(CHOOSE s \in cloneSource : TRUE,
                                                       pt, cloneOffset)
                                      ELSE cloneOffset
                    /\ UNCHANGED <<cloneSource, isSettingCloneSource>>
                    /\ IF brushType = "pan"
                       THEN /\ isPanning' = TRUE
                            /\ panStart' = [x |-> pt[1] - transform.x,
                                            y |-> pt[2] - transform.y]
                            /\ UNCHANGED <<canvases, isDrawing>>
                       ELSE /\ IF \E i \in ActiveIndex : layers[i].visible
                               THEN /\ isDrawing' = TRUE
                                    /\ canvases' = Stroked(pt, cloneOffset')
                               ELSE UNCHANGED <<canvases, isDrawing>>
                            /\ UNCHANGED <<isPanning, panStart>>
            /\ UNCHANGED <<cropRect, cropInteraction, cropStart>>
    /\ UNCHANGED <<brushType, transform, pinchRef>>
    /\ Note("handlePointerDown", FALSE)
    /\ UserEvent
    /\ UNCHANGED <<version, layers, activeLayerId, canvasSize, histVars,
                   isCropping, loadTask, insertTask>>

\* the pointer goes down on a handle of the crop rectangle (V2)
cropHandlePointerDown(type) ==
    /\ EditorMounted
    /\ version = "V2"
    /\ isCropping /\ cropRect # {}
    /\ cropInteraction' = type
    /\ Note("cropHandlePointerDown", FALSE)
    /\ UserEvent
    /\ UNCHANGED <<version, docVars, histVars, isDrawing, isCropping, cropRect,
                   cropStart, loadTask, insertTask>>

\* the branch a pointer-move takes: App looks at the crop drag first, V2 at
\* the pan
CropDrags == isCropping /\ cropInteraction # "none" /\ cropRect # {}

MoveBranchNoPan(ver, cropDrags, panning) ==
    IF cropDrags THEN "crop" ELSE "draw"

MoveBranch(ver, cropDrags, panning) ==
    IF ver = "App"
    THEN (IF cropDrags THEN "crop" ELSE IF panning THEN "pan" ELSE "draw")
    ELSE (IF panning THEN "pan" ELSE IF cropDrags THEN "crop" ELSE "draw")

handlePointerMove(pt) ==
    /\ EditorMounted
    /\ LET branch == MoveBranch(version, CropDrags, isPanning)
       IN  CASE branch = "crop" ->
                  LET rect == IF version = "App"
                              THEN DraggedApp(cropInteraction,
                                              CHOOSE c \in cropStart : TRUE, pt)
                              ELSE DraggedV2(cropInteraction,
                                             CHOOSE r \in cropRect : TRUE, pt)
                  IN  /\ cropRect' = {rect}
                      /\ UNCHANGED <<canvases, transform>>
             [] branch = "pan" ->
                  /\ transform' = [transform EXCEPT !.x = pt[1] - panStart.x,
                                                    !.y = pt[2] - panStart.y]
                  /\ UNCHANGED <<canvases, cropRect>>
             [] branch = "draw" ->
                  /\ IF isDrawing /\ ActiveIndex # {}
                     THEN canvases' = Stroked(pt, cloneOffset)
                     ELSE UNCHANGED canvases
                  /\ UNCHANGED <<cropRect, transform>>
    /\ UNCHANGED <<brushType, isPanning, panStart, pinchRef>>
    /\ Note("handlePointerMove", FALSE)
    /\ UserEvent
    /\ UNCHANGED <<version, layers, activeLayerId, canvasSize, histVars, isDrawing,
                   isCropping, cropInteraction, cropStart, loadTask, insertTask>>

handlePointerUp ==
    /\ EditorMounted
    /\ pinchRef' = {}
    /\ UNCHANGED <<brushType, transform, panStart>>
    /\ IF isCropping /\ version = "App"
       THEN /\ cropInteraction' = "none" /\ cropStart' = {}
            /\ UNCHANGED <<histVars, isDrawing, isPanning>>
            /\ Note("handlePointerUp", FALSE)
       ELSE /\ cropInteraction' = IF isCropping THEN "none" ELSE cropInteraction
            /\ UNCHANGED cropStart
            /\ isPanning' = FALSE
            /\ IF isDrawing
               THEN /\ isDrawing' = FALSE
                    /\ Snapshot("handlePointerUp", layers, canvases,
                                canvasSize.width, canvasSize.height)
               ELSE UNCHANGED <<histVars, isDrawing>> /\ Note("handlePointerUp", FALSE)
    /\ UserEvent
    /\ UNCHANGED <<version, docVars, isCropping, cropRect, loadTask, insertTask>>

(***************************************************************************)
(* Canvas transforms.  Each builds a new canvas for every layer, then      *)
(* queues setCanvasSize and setLayers and calls saveHistory.  drawImage    *)
(* throwing on a layer stops the handler before anything is queued;        *)
(* saveHistory throwing stops it after setCanvasSize and setLayers.        *)
(***************************************************************************)
\* the toolbar with the tools, undo and redo: App hides it in crop mode
ToolbarShown == version = "V2" \/ ~isCropping

DrawThrows == \E i \in DOMAIN layers : DrawImageThrows(canvases[layers[i].canvas])

\* the canvas of layer i
CanvasOf(i) == canvases[layers[i].canvas]

\* layers.map(l => ({ ...l, canvas: newCanvas })) and the heap with the
\* new canvases on it; surfaces[i] is the new canvas of layer i
Transformed(surfaces) ==
    LET n == Len(layers)
        newLayers == [i \in 1 .. n |->
                        [layers[i] EXCEPT !.canvas = NthFree(canvases, i, n)]]
        heap == [k \in (DOMAIN canvases) \cup HandlesOf(newLayers) |->
                    IF k \in DOMAIN canvases THEN canvases[k]
                    ELSE LET i == CHOOSE j \in 1 .. n : newLayers[j].canvas = k
                         IN  surfaces[i]]
    IN  [layers |-> newLayers, heap |-> heap]

\* a transform that forgets setCanvasSize
SetTransformedLayersOnly(op, t, w, h) ==
    /\ UNCHANGED canvasSize
    /\ SetDoc(t.layers, t.heap, loadTask, timerTask, insertTask)
    /\ Snapshot(op, t.layers, t.heap, w, h)

SetTransformed(op, t, w, h) ==
    /\ canvasSize' = [width |-> w, height |-> h]
    /\ SetDoc(t.layers, t.heap, loadTask, timerTask, insertTask)
    /\ Snapshot(op, t.layers, t.heap, w, h)

handleRotateCanvas(degrees) ==
    LET newW == canvasSize.height
        newH == canvasSize.width
        turned == [i \in DOMAIN layers |-> RotatedCanvas(CanvasOf(i), degrees, newW, newH)]
    IN  /\ EditorMounted /\ ToolbarShown
        /\ IF DrawThrows
           THEN UNCHANGED <<layers, canvases, canvasSize, histVars>>
                /\ Note("handleRotateCanvas", FALSE)
           ELSE SetTransformed("handleRotateCanvas", Transformed(turned), newW, newH)
        /\ UserEvent
        /\ UNCHANGED <<version, activeLayerId, uiVars, loadTask, insertTask>>

\* the Apply button of the resize dialog, with the numbers typed in it
applyResize(newW, newH) ==
    LET scaled == [i \in DOMAIN layers |-> DrawImageStretched(CanvasOf(i), newW, newH)]
    IN  /\ EditorMounted /\ ToolbarShown
        /\ IF (version = "App" /\ (newW <= 0 \/ newH <= 0)) \/ DrawThrows
           THEN UNCHANGED <<layers, canvases, canvasSize, histVars>>
                /\ Note("applyResize", FALSE)
           ELSE SetTransformed("applyResize", Transformed(scaled), newW, newH)
        /\ UserEvent
        /\ UNCHANGED <<version, activeLayerId, uiVars, loadTask, insertTask>>

\* the Crop tool: setIsCropping(true) in App, toggleCrop in V2, which also
\* starts with a centred rectangle of 80% of the canvas
startCrop ==
    /\ EditorMounted /\ ToolbarShown
    /\ ~isCropping
    /\ isCropping' = TRUE
    /\ cropRect' = IF version = "App" THEN cropRect
                   ELSE {Rect(canvasSize.width, canvasSize.height,
                              8 * canvasSize.width, 8 * canvasSize.height)}
    /\ Note("startCrop", FALSE)
    /\ UserEvent
    /\ UNCHANGED <<version, docVars, histVars, isDrawing, cropInteraction,
                   cropStart, loadTask, insertTask>>

\* Cancel of the crop bar (App), toggleCrop while cropping (V2)
cancelCrop ==
    /\ EditorMounted
    /\ isCropping
    /\ isCropping' = FALSE
    /\ cropRect' = {}
    /\ cropInteraction' = IF version = "App" THEN "none" ELSE cropInteraction
    /\ cropStart' = {}
    /\ Note("cancelCrop", FALSE)
    /\ UserEvent
    /\ UNCHANGED <<version, docVars, histVars, isDrawing, loadTask, insertTask>>

\* the Apply button of the crop bar; App disables it while there is no
\* rectangle or its width is 0
applyCrop ==
    /\ EditorMounted
    /\ isCropping
    /\ version = "App" => \E r \in cropRect : r.w # 0
    /\ IF cropRect = {} \/ (version = "App" /\ \E r \in cropRect : r.w = 0 \/ r.h = 0)
       THEN /\ isCropping' = IF version = "App" THEN FALSE ELSE isCropping
            /\ cropRect' = IF version = "App" THEN {} ELSE cropRect
            /\ UNCHANGED <<layers, canvases, canvasSize, histVars, cropInteraction,
                           cropStart>>
            /\ Note("applyCrop", FALSE)
       ELSE LET r == CHOOSE c \in cropRect : TRUE
                newW == IF version = "App" THEN Round(r.w) ELSE Floor(r.w)
                newH == IF version = "App" THEN Round(r.h) ELSE Floor(r.h)
                Cut(c) == IF version = "App"
                          THEN DrawImageRect(c, Round(r.x) * Unit, Round(r.y) * Unit,
                                             newW * Unit, newH * Unit, newW, newH)
                          ELSE DrawImageRect(c, r.x, r.y, r.w, r.h, newW, newH)
                t == Transformed([i \in DOMAIN layers |-> Cut(CanvasOf(i))])
            IN  IF DrawThrows
                THEN UNCHANGED <<layers, canvases, canvasSize, histVars, cropVars>>
                     /\ Note("applyCrop", FALSE)
                ELSE /\ SetTransformed("applyCrop", t, newW, newH)
                     /\ IF SaveThrows(t.layers, t.heap)
                        THEN UNCHANGED cropVars
                        ELSE /\ isCropping' = FALSE
                             /\ cropRect' = {}
                             /\ cropInteraction' =
                                    IF version = "App" THEN "none" ELSE cropInteraction
                             /\ cropStart' = {}
    /\ UserEvent
    /\ UNCHANGED <<version, activeLayerId, isDrawing, loadTask, insertTask>>

(***************************************************************************)
(* Inserting an image as a layer.  The handler only starts the load; the   *)
(* onload callback runs later with the layers, canvas size, history and    *)
(* step of the render that started it.                                     *)
(***************************************************************************)
StartInsert(kind) ==
    /\ EditorMounted
    /\ insertTask = {}
    /\ Len(layers) < MaxLayers
    /\ IdsLeft
    /\ insertTask' = {[kind |-> kind, layers |-> layers, canvasSize |-> canvasSize,
                       history |-> history, historyStep |-> historyStep]}
    /\ Note(kind, FALSE)
    /\ UserEvent
    /\ UNCHANGED <<version, docVars, histVars, uiVars, loadTask>>

\* the file input "Add Image as Layer" of the layer panel
handleAddImageLayer == StartInsert("handleAddImageLayer")

\* the Apply button of a result of the magic edit
handleApplyResult == StartInsert("handleApplyResult")

\* img.onload of handleAddImageLayer and of handleApplyResult
insertOnload ==
    \E t \in insertTask :
      /\ t.kind \in {"handleAddImageLayer", "handleApplyResult"}
      /\
        LET img == SourceImage
            cw == t.canvasSize.width
            ch == t.canvasSize.height
            handle == NthFree(canvases, 1, 1)
            newLayer == createLayer(
                Name(IF t.kind = "handleAddImageLayer" THEN "Image" ELSE "Magic Result",
                     IF version = "V2" THEN 0
                     ELSE IF t.kind = "handleAddImageLayer" THEN Len(t.layers) + 1
                     ELSE Len(t.layers)),
                FreshId, handle)
            heap == Extend(canvases, handle,
                           IF version = "App" THEN DrawImageContained(img, cw, ch)
                           ELSE DrawImageStretched(img, cw, ch))
            newLayers == Append(t.layers, newLayer)
            setLayers == IF version = "V2" /\ t.kind = "handleAddImageLayer"
                         THEN Append(layers, newLayer)
                         ELSE newLayers
            r == saveHistory(version, newLayers, heap, cw, ch,
                             t.history, t.historyStep, history, historyStep)
        IN  /\ IdsLeft
            /\ Len(setLayers) <= MaxLayers
            /\ SetDoc(setLayers, heap, loadTask, timerTask, {})
            /\ activeLayerId' = newLayer.id
            /\ SetHistory(r)
            /\ insertTask' = {}
            /\ editedImages' = IF t.kind = "handleApplyResult" THEN <<>> ELSE editedImages
            /\ UNCHANGED <<editTask, isEditing>>
            /\ Note("insertOnload", ~r.threw)
            /\ UNCHANGED <<version, canvasSize, uiVars, loadTask, timerTask>>

(***************************************************************************)
(* Replacing the content of the active layer (App).  The handler only      *)
(* starts the load; img.onload runs later with the layers, the active      *)
(* layer id, the canvas size and the history of the render that chose the  *)
(* file.                                                                   *)
(***************************************************************************)
\* the canvas c after clearRect and drawImage(img, offsetX, offsetY,
\* drawWidth, drawHeight): img fitted inside cw x ch, what falls outside c
\* is lost
ReplacedContent(c, img, cw, ch) ==
    LET drawn == DrawImageContained(img, cw, ch)
    IN  [w |-> c.w, h |-> c.h,
         px |-> [p \in Pixels(c.w, c.h) |-> Sample(drawn, p[1], p[2])]]

\* the file input "Replace Content" of the active layer's row
handleReplaceLayerContent ==
    /\ EditorMounted
    /\ version = "App"
    /\ ActiveIndex # {}
    /\ insertTask = {}
    /\ insertTask' = {[kind |-> "handleReplaceLayerContent", layers |-> layers,
                       canvasSize |-> canvasSize, history |-> history,
                       historyStep |-> historyStep, active |-> activeLayerId]}
    /\ Note("handleReplaceLayerContent", FALSE)
    /\ UserEvent
    /\ UNCHANGED <<version, docVars, histVars, uiVars, loadTask>>

\* img.onload of handleReplaceLayerContent
replaceOnload ==
    \E t \in insertTask :
        /\ t.kind = "handleReplaceLayerContent"
        /\ LET found == {i \in DOMAIN t.layers : t.layers[i].id = t.active}
               i == CHOOSE k \in found : TRUE
               c == t.layers[i].canvas
               heap == [canvases EXCEPT
                           ![c] = ReplacedContent(@, SourceImage,
                                                  t.canvasSize.width,
                                                  t.canvasSize.height)]
               r == saveHistory(version, t.layers, heap, t.canvasSize.width,
                                t.canvasSize.height, t.history, t.historyStep,
                                history, historyStep)
           IN  IF found # {}
               THEN /\ SetDoc(t.layers, heap, loadTask, timerTask, {})
                    /\ SetHistory(r)
                    /\ Note("replaceOnload", ~r.threw)
               ELSE /\ SetDoc(layers, canvases, loadTask, timerTask, {})
                    /\ UNCHANGED histVars
                    /\ Note("replaceOnload", FALSE)
        /\ insertTask' = {}
        /\ UNCHANGED <<version, activeLayerId, canvasSize, uiVars, loadTask,
                       timerTask>>

(***************************************************************************)
(* The remote edit.  handleMagicEdit and handleRemoveBackground send the   *)
(* main canvas to editImage and wait; editImage throws, or returns the     *)
(* images of the response, none included.                                  *)
(***************************************************************************)
EditKinds == {"handleMagicEdit", "handleRemoveBackground"}
EditOutcomes == {"threw", "empty", "image"}

StartEdit(kind) ==
    /\ EditorMounted
    /\ kind \notin editTask
    /\ isEditing' = TRUE
    /\ editTask' = editTask \cup {kind}
    /\ Note(kind, FALSE)
    /\ UserEvent
    /\ UNCHANGED <<version, docVars, histVars, uiVars, loadTask, insertTask,
                   editedImages>>

\* the button is disabled while isEditing
handleMagicEdit == ~isEditing /\ StartEdit("handleMagicEdit")

handleRemoveBackground == StartEdit("handleRemoveBackground")

\* editedImages after the try / catch around editImage
ResultsShownAlways(outcome, shown) == <<"result">>

ResultsShown(outcome, shown) ==
    CASE outcome = "threw" -> shown
      [] outcome = "empty" -> <<>>
      [] outcome = "image" -> <<"result">>

\* the await of editImage resumes: try, catch and finally
editImageSettled(kind, outcome) ==
    /\ kind \in editTask
    /\ editTask' = editTask \ {kind}
    /\ editedImages' = ResultsShown(outcome, editedImages)
    /\ isEditing' = FALSE
    /\ Note(IF outcome = "threw" THEN "editImageThrew" ELSE "editImageReturned", FALSE)
    /\ UNCHANGED <<version, docVars, histVars, uiVars, loadTask, timerTask, insertTask>>

\* the close button of the results
closeResults ==
    /\ EditorMounted
    /\ editedImages # <<>>
    /\ editedImages' = <<>>
    /\ Note("closeResults", FALSE)
    /\ UserEvent
    /\ UNCHANGED <<version, docVars, histVars, uiVars, loadTask, insertTask,
                   editTask, isEditing>>

\* the results are on offer
ResultsOffered == editedImages # <<>>

(***************************************************************************)
(* The viewport.  The scale is counted in hundredths and multiplied in     *)
(* integers, rounding down; the pointer of a pan is where the event is.    *)
(***************************************************************************)
BrushTypes == {"pen", "pan"}
WheelDeltas == {-100, 100}
WheelPoints == {<<0, 0>>, <<Unit, Unit>>}
PinchDists == {Unit, 2 * Unit}
PinchCentres == {<<0, 0>>, <<Unit, 0>>}

Unclamped(lo, n, hi) == n

\* Math.min(Math.max(lo, n), hi)
Clamp(lo, n, hi) == Min(Max(lo, n), hi)

setBrushType(type) ==
    /\ EditorMounted
    /\ type # brushType
    /\ brushType' = type
    /\ Note("setBrushType", FALSE)
    /\ UserEvent
    /\ UNCHANGED <<version, docVars, histVars, uiVars, loadTask, insertTask,
                   transform, isPanning, panStart, pinchRef>>

SetTransform(op, t) ==
    /\ EditorMounted
    /\ transform' = t
    /\ Note(op, FALSE)
    /\ UserEvent
    /\ UNCHANGED <<version, docVars, histVars, uiVars, loadTask, insertTask,
                   brushType, isPanning, panStart>>

ZoomedIn(ver, scale) ==
    IF ver = "App" THEN Min(scale + ScaleUnit \div 2, 5 * ScaleUnit)
    ELSE Min((scale * 12) \div 10, 10 * ScaleUnit)

ZoomedOut(ver, scale) ==
    IF ver = "App" THEN Max(scale - ScaleUnit \div 2, ScaleUnit \div 2)
    ELSE Max((scale * 10) \div 12, ScaleUnit \div 10)

handleZoomIn ==
    /\ SetTransform("handleZoomIn",
                    [transform EXCEPT !.scale = ZoomedIn(version, transform.scale)])
    /\ UNCHANGED pinchRef

handleZoomOut ==
    /\ SetTransform("handleZoomOut",
                    [transform EXCEPT !.scale = ZoomedOut(version, transform.scale)])
    /\ UNCHANGED pinchRef

handleResetZoom == SetTransform("handleResetZoom", Identity) /\ UNCHANGED pinchRef

\* the transform a wheel event leaves: App zooms about the pointer, V2 zooms
\* with the control key held and scrolls without
Wheeled(ver, t, deltaX, deltaY, at, ctrlKey) ==
    IF ver = "App"
    THEN LET newScale == Clamp(ScaleUnit \div 10,
                               (t.scale * (10000 - 15 * deltaY)) \div 10000,
                               20 * ScaleUnit)
         IN  [x |-> at[1] - ((at[1] - t.x) * newScale) \div t.scale,
              y |-> at[2] - ((at[2] - t.y) * newScale) \div t.scale,
              scale |-> newScale]
    ELSE IF ctrlKey
    THEN [t EXCEPT !.scale = Clamp(ScaleUnit \div 10,
                                   (t.scale * (IF -deltaY > 0 THEN 110 ELSE 90)) \div 100,
                                   10 * ScaleUnit)]
    ELSE [t EXCEPT !.x = @ - deltaX, !.y = @ - deltaY]

handleWheel(deltaX, deltaY, at, ctrlKey) ==
    /\ SetTransform("handleWheel",
                    Wheeled(version, transform, deltaX, deltaY, at, ctrlKey))
    /\ UNCHANGED pinchRef

\* handlePointerDown of App with two touches
pinchStart(dist, centre) ==
    /\ EditorMounted
    /\ version = "App"
    /\ pinchRef' = {[dist |-> dist, centre |-> centre, startScale |-> transform.scale]}
    /\ Note("pinchStart", FALSE)
    /\ UserEvent
    /\ UNCHANGED <<version, docVars, histVars, uiVars, loadTask, insertTask,
                   brushType, transform, isPanning, panStart>>

\* handlePointerMove of App with two touches while pinchRef is set
pinchMove(dist, centre) ==
    \E ref \in pinchRef :
        LET newScale == Clamp(ScaleUnit \div 10, (ref.startScale * dist) \div ref.dist,
                              20 * ScaleUnit)
        IN  /\ version = "App"
            /\ SetTransform("pinchMove",
                            [scale |-> newScale,
                             x |-> transform.x + (centre[1] - ref.centre[1]),
                             y |-> transform.y + (centre[2] - ref.centre[2])])
            /\ pinchRef' = {[dist |-> dist, centre |-> centre, startScale |-> newScale]}

(***************************************************************************)
(* The screen.  renderCompositeCanvas draws the visible layers, bottom      *)
(* first, on the main canvas; the animation-frame loop calls it when        *)
(* needsCompositeRef is set.  A pixel of the main canvas is the list of     *)
(* what was drawn on it and still shows, <<>> where nothing was; a surface  *)
(* keeps the pixels that are not <<>>.                                      *)
(***************************************************************************)
NoPixels == [p \in {} |-> <<>>]

\* a canvas element as created, or after its width was set
Blank(w, h) == [w |-> w, h |-> h, px |-> NoPixels]

Surface(w, h, all) ==
    [w |-> w, h |-> h, px |-> [p \in {q \in Pixels(w, h) : all[q] # <<>>} |-> all[p]]]

\* ctx.clearRect(0, 0, mainCanvas.width, mainCanvas.height) (App); the resize
\* to canvasSize when it differs and the black fillRect (V2)
Cleared(ver, out, size) ==
    IF ver = "App" THEN Blank(out.w, out.h)
    ELSE Surface(size.width, size.height,
                 [p \in Pixels(size.width, size.height) |->
                     <<[colour |-> Black, opacity |-> 100, mode |-> "source-over"]>>])

\* one pixel of a layer drawn over dst with globalAlpha and
\* globalCompositeOperation set: a transparent pixel leaves dst, an opaque
\* one drawn source-over at full opacity covers it
DrawnOver(dst, colour, opacity, mode) ==
    IF colour = 0 THEN dst
    ELSE IF mode = "source-over" /\ opacity = 100
    THEN <<[colour |-> colour, opacity |-> opacity, mode |-> mode]>>
    ELSE Append(dst, [colour |-> colour, opacity |-> opacity, mode |-> mode])

\* the blend mode a layer is drawn with
ModeOf(l, active, preview) ==
    IF l.id = active /\ preview # "none" THEN preview ELSE l.blendMode

\* pixel p after layers.forEach has drawn the first n layers over dst
RECURSIVE DrawnLayers(_, _, _, _, _, _, _)
DrawnLayers(ls, heap, active, preview, p, n, dst) ==
    IF n = 0 THEN dst
    ELSE LET under == DrawnLayers(ls, heap, active, preview, p, n - 1, dst)
             l == ls[n]
         IN  IF l.visible
             THEN DrawnOver(under, Sample(heap[l.canvas], p[1], p[2]), l.opacity,
                            ModeOf(l, active, preview))
             ELSE under

\* drawImage(layer.canvas, 0, 0) throws for a visible layer whose canvas has no
\* width or no height
RenderThrows(ls, heap) ==
    \E i \in DOMAIN ls : ls[i].visible /\ DrawImageThrows(heap[ls[i].canvas])

\* renderCompositeCanvas that draws over what the canvas shows
renderOverOld(ver, out, ls, heap, active, preview, size) ==
    LET w == IF ver = "App" THEN out.w ELSE size.width
        h == IF ver = "App" THEN out.h ELSE size.height
    IN  Surface(w, h, [p \in Pixels(w, h) |->
                         DrawnLayers(ls, heap, active, preview, p, Len(ls),
                                     PixelOf(out, p))])

\* renderCompositeCanvas on the main canvas out: the surface it leaves when
\* no drawImage throws
renderCompositeCanvas(ver, out, ls, heap, active, preview, size) ==
    LET cleared == Cleared(ver, out, size)
    IN  Surface(cleared.w, cleared.h,
                [p \in Pixels(cleared.w, cleared.h) |->
                    DrawnLayers(ls, heap, active, preview, p, Len(ls),
                                PixelOf(cleared, p))])

\* the main canvas a thrown drawImage leaves: cleared, with the layers below
\* the throwing one drawn
RECURSIVE FirstThrowing(_, _, _)
FirstThrowing(ls, heap, i) ==
    IF ls[i].visible /\ DrawImageThrows(heap[ls[i].canvas]) THEN i
    ELSE FirstThrowing(ls, heap, i + 1)

renderUntilThrow(ver, out, ls, heap, active, preview, size) ==
    LET cleared == Cleared(ver, out, size)
        n == FirstThrowing(ls, heap, 1) - 1
    IN  Surface(cleared.w, cleared.h,
                [p \in Pixels(cleared.w, cleared.h) |->
                    DrawnLayers(ls, heap, active, preview, p, n, PixelOf(cleared, p))])

\* the lines of a handler that set needsCompositeRef.current = true, reached
\* by the step just taken
SetsNeedsComposite ==
    \/ /\ lastOp'.op = "handlePointerDown"
       /\ ~isCropping /\ brushType # "pan" /\ ~SetsCloneSource
       /\ \E i \in ActiveIndex : layers[i].visible
    \/ /\ lastOp'.op = "handlePointerMove"
       /\ MoveBranch(version, CropDrags, isPanning) = "draw"
       /\ isDrawing /\ ActiveIndex # {}
    \/ lastOp'.op = "handleClearLayer" /\ ActiveIndex # {}
    \/ lastOp'.op = "replaceOnload"
       /\ \E t \in insertTask : t.active \in IdsOf(t.layers)
    \/ /\ version = "App"
       /\ lastOp'.op \in {"handleRotateCanvas", "applyCrop", "applyResize"}
       /\ layers' # layers
    \/ /\ version = "V2"
       /\ lastOp'.op \in {"initEditorWithImage", "handleUndo", "handleRedo"}
       /\ layers' # layers

\* canvasRef.current.width = ... in a handler of App, which empties the
\* main canvas
SetsCanvasWidth ==
    /\ version = "App"
    /\ lastOp'.op \in {"handleRotateCanvas", "applyCrop", "applyResize",
                       "handleUndo", "handleRedo"}
    /\ layers' # layers

\* the handlers and callbacks that set the state of the remote edit and of
\* the viewport; every other one leaves it alone
SetsEdit == {"handleEditFileChange", "loadSession", "insertOnload", "handleMagicEdit",
             "handleRemoveBackground", "editImageThrew", "editImageReturned",
             "closeResults"}
SetsTool == {"layerDragStart", "layerDragEnd", "handleLayerDrop", "saveSession",
             "setSymmetry", "setRadialCount"}
SetsClone == {"handlePointerDown", "setIsSettingCloneSource"}
SetsView == {"loadSession", "initEditorWithImage", "handlePointerDown", "handlePointerMove",
             "handlePointerUp", "pinchStart", "pinchMove", "handleZoomIn",
             "handleZoomOut", "handleResetZoom", "handleWheel", "setBrushType"}

\* what React does with the state a handler or callback has set: the canvas
\* element is there while there are layers, App gives it the width and height
\* of canvasSize, and the effects set needsCompositeRef when layers,
\* canvasSize, previewBlendMode or activeLayerId changed and (App) reset the
\* preview when the active layer changed
Commit(preview) ==
    /\ previewBlendMode' =
           IF version = "App" /\ activeLayerId' # activeLayerId THEN "none" ELSE preview
    /\ mainCanvas' =
           IF Len(layers') = 0 THEN {}
           ELSE IF mainCanvas = {}
           THEN {IF version = "App" THEN Blank(canvasSize'.width, canvasSize'.height)
                 ELSE Blank(DefaultWidth, DefaultHeight)}
           ELSE IF version = "App" /\ (canvasSize' # canvasSize \/ SetsCanvasWidth)
           THEN {Blank(canvasSize'.width, canvasSize'.height)}
           ELSE mainCanvas
    /\ needsComposite' =
           (\/ needsComposite
            \/ SetsNeedsComposite
            \/ layers' # layers
            \/ canvasSize' # canvasSize
            \/ activeLayerId' # activeLayerId
            \/ previewBlendMode' # previewBlendMode)
    /\ rendered' = FALSE
    /\ loopRuns' =
           (\/ loopRuns
            \/ layers' # layers
            \/ activeLayerId' # activeLayerId
            \/ previewBlendMode' # previewBlendMode
            \/ version = "V2" /\ canvasSize' # canvasSize)
    /\ IF lastOp'.op \in SetsEdit THEN TRUE ELSE UNCHANGED editVars
    /\ IF lastOp'.op \in SetsView THEN TRUE ELSE UNCHANGED viewVars
    /\ IF lastOp'.op \in SetsTool THEN TRUE ELSE UNCHANGED toolVars
    /\ IF lastOp'.op \in SetsClone THEN TRUE ELSE UNCHANGED cloneVars

\* a handler that leaves the preview alone, and handleLayerBlendChange /
\* handleSetBlendMode, which ends it
Handled == Commit(IF lastOp'.op = "handleLayerBlendChange" THEN "none"
                  ELSE previewBlendMode)

\* onMouseEnter / onMouseLeave of an entry of the blend mode menu of the
\* active layer
hoverBlendMode(mode) ==
    /\ EditorMounted
    /\ ActiveIndex # {}
    /\ mode # previewBlendMode
    /\ Note("hoverBlendMode", FALSE)
    /\ UserEvent
    /\ UNCHANGED <<version, docVars, histVars, uiVars, loadTask, insertTask>>
    /\ Commit(mode)

\* one turn of the requestAnimationFrame loop; renderCompositeCanvas throwing
\* ends the turn before the next one is scheduled, and the loop starts again
\* when the effect that owns it runs again
renderTick ==
    /\ loopRuns
    /\ Note("renderTick", FALSE)
    /\ IF needsComposite /\ mainCanvas # {}
       THEN LET out == CHOOSE c \in mainCanvas : TRUE
            IN  IF RenderThrows(layers, canvases)
                THEN /\ mainCanvas' = {renderUntilThrow(version, out, layers, canvases,
                                            activeLayerId, previewBlendMode, canvasSize)}
                     /\ UNCHANGED needsComposite
                     /\ rendered' = FALSE
                     /\ loopRuns' = FALSE
                ELSE /\ mainCanvas' = {renderCompositeCanvas(version, out, layers,
                                            canvases, activeLayerId, previewBlendMode,
                                            canvasSize)}
                     /\ needsComposite' = FALSE
                     /\ rendered' = TRUE
                     /\ UNCHANGED loopRuns
       ELSE /\ UNCHANGED <<mainCanvas, needsComposite, loopRuns>>
            /\ rendered' = FALSE
    /\ UNCHANGED <<version, docVars, histVars, uiVars, loadTask, timerTask,
                   insertTask, previewBlendMode, editVars, viewVars, toolVars,
                   cloneVars>>

(***************************************************************************)
(* Specifications.                                                         *)
(***************************************************************************)
Init ==
    /\ version \in Versions
    /\ layers = <<>>
    /\ canvases = <<>>
    /\ activeLayerId = NoLayer
    /\ canvasSize = [width |-> 0, height |-> 0]
    /\ history = <<>>
    /\ historyStep = -1
    /\ isDrawing = FALSE
    /\ isCropping = FALSE
    /\ cropRect = {}
    /\ cropInteraction = "none"
    /\ cropStart = {}
    /\ loadTask = {}
    /\ timerTask = {}
    /\ insertTask = {}
    /\ mainCanvas = {}
    /\ needsComposite = TRUE
    /\ previewBlendMode = "none"
    /\ rendered = FALSE
    /\ loopRuns = TRUE
    /\ editTask = {}
    /\ isEditing = FALSE
    /\ editedImages = <<>>
    /\ brushType = "pen"
    /\ transform = Identity
    /\ isPanning = FALSE
    /\ panStart = [x |-> 0, y |-> 0]
    /\ pinchRef = {}
    /\ draggedLayerIndex = {}
    /\ savedSession = {}
    /\ symmetry = "none"
    /\ radialCount = 4
    /\ cloneSource = {}
    /\ isSettingCloneSource = FALSE
    /\ cloneOffset = [x |-> 0, y |-> 0]
    /\ nOps = 0
    /\ lastOp = [op |-> "none", step |-> -1, len |-> 0, snap |-> FALSE]

\* an editor event takes one unit of the budget; a callback, opening a
\* document and the pointer moving or lifting in crop mode take none
Tick == nOps < MaxOps /\ nOps' = nOps + 1
Free == UNCHANGED nOps
TickUnlessCropping == IF isCropping THEN Free ELSE Tick

\* the editor: every event and callback above, a few events deep
Next ==
    \/ Free /\ handleEditFileChange /\ Handled
    \/ Free /\ initEditorWithImage /\ Handled
    \/ Free /\ initialSnapshot /\ Handled
    \/ Free /\ insertOnload /\ Handled
    \/ Tick /\ closeSession /\ Handled
    \/ Tick /\ handleUndo /\ ToolbarShown /\ Handled
    \/ Tick /\ handleRedo /\ ToolbarShown /\ Handled
    \/ Tick /\ \E id \in IdsOf(layers) : handleToggleVisibility(id) /\ Handled
    \/ Tick /\ \E id \in IdsOf(layers) \ {activeLayerId} : selectLayer(id) /\ Handled
    \/ Tick /\ handleAddLayer /\ Handled
    \/ Tick /\ \E id \in IdsOf(layers) : handleDeleteLayer(id) /\ Handled
    \/ Tick /\ \E i \in DOMAIN layers, d \in {"up", "down"} : handleMoveLayer(i, d) /\ Handled
    \/ Tick /\ \E id \in IdsOf(layers), o \in OpacityValues :
                  handleLayerOpacityChange(id, o) /\ Handled
    \/ Tick /\ \E id \in IdsOf(layers), o \in OpacityValues :
                  handleLayerOpacityCommit(id, o) /\ Handled
    \/ Tick /\ \E id \in IdsOf(layers), m \in BlendModes :
                  handleLayerBlendChange(id, m) /\ Handled
    \/ Tick /\ handleClearLayer /\ ToolbarShown /\ Handled
    \/ Tick /\ \E pt \in PointerPoints : handlePointerDown(pt) /\ Handled
    \/ TickUnlessCropping /\ \E pt \in PointerPoints : handlePointerMove(pt) /\ Handled
    \/ TickUnlessCropping /\ handlePointerUp /\ Handled
    \/ Tick /\ \E type \in CropHandles : cropHandlePointerDown(type) /\ Handled
    \/ Tick /\ \E d \in Degrees : handleRotateCanvas(d) /\ Handled
    \/ Tick /\ \E size \in ResizeSizes : applyResize(size[1], size[2]) /\ Handled
    \/ Tick /\ startCrop /\ Handled
    \/ Tick /\ cancelCrop /\ Handled
    \/ Tick /\ applyCrop /\ Handled
    \/ Tick /\ handleAddImageLayer /\ Handled
    \/ Tick /\ handleApplyResult /\ Handled
    \/ Tick /\ handleReplaceLayerContent /\ Handled
    \/ Free /\ replaceOnload /\ Handled

Spec == Init /\ [][Next]_vars

\* the history alone: a document is opened, its visibility toggled, undone,
\* redone and closed, as often as the user likes
NextHistory ==
    \/ Free /\ handleEditFileChange /\ Handled
    \/ Free /\ initEditorWithImage /\ Handled
    \/ Free /\ initialSnapshot /\ Handled
    \/ Free /\ closeSession /\ Handled
    \/ Free /\ \E id \in IdsOf(layers) : handleToggleVisibility(id) /\ Handled
    \/ Free /\ handleUndo /\ Handled
    \/ Free /\ handleRedo /\ Handled

SpecHistory == Init /\ [][NextHistory]_vars

\* cropping alone: a document is opened and the crop rectangle is drawn,
\* dragged and applied; a pointer-down takes one unit of the budget
NextCrop ==
    \/ Free /\ handleEditFileChange /\ Handled
    \/ Free /\ initEditorWithImage /\ Handled
    \/ Free /\ initialSnapshot /\ Handled
    \/ Free /\ startCrop /\ Handled
    \/ Free /\ cancelCrop /\ Handled
    \/ Tick /\ isCropping /\ \E pt \in PointerPoints : handlePointerDown(pt) /\ Handled
    \/ Tick /\ \E type \in CropHandles : cropHandlePointerDown(type) /\ Handled
    \/ Free /\ isCropping /\ \E pt \in PointerPoints : handlePointerMove(pt) /\ Handled
    \/ Free /\ isCropping /\ handlePointerUp /\ Handled
    \/ Free /\ applyCrop /\ Handled

SpecCrop == Init /\ [][NextCrop]_vars

\* painting alone: a document is opened and painted on with the pen, with
\* undo and redo; a pointer-down takes one unit of the budget
NextDab ==
    \/ Free /\ handleEditFileChange /\ Handled
    \/ Free /\ initEditorWithImage /\ Handled
    \/ Free /\ initialSnapshot /\ Handled
    \/ Tick /\ \E pt \in PointerPoints : handlePointerDown(pt) /\ Handled
    \/ Free /\ handlePointerUp /\ Handled
    \/ Free /\ handleUndo /\ Handled
    \/ Free /\ handleRedo /\ Handled

SpecDab == Init /\ [][NextDab]_vars

\* the screen: the animation-frame loop turns while a document is opened,
\* changed a few times and closed; the loop keeps turning for ever
NextRender ==
    \/ Free /\ renderTick
    \/ Free /\ handleEditFileChange /\ Handled
    \/ Free /\ initEditorWithImage /\ Handled
    \/ Free /\ initialSnapshot /\ Handled
    \/ Tick /\ closeSession /\ Handled
    \/ Tick /\ handleUndo /\ Handled
    \/ Tick /\ handleRedo /\ Handled
    \/ Tick /\ \E id \in IdsOf(layers) : handleToggleVisibility(id) /\ Handled
    \/ Tick /\ handleAddLayer /\ Handled
    \/ Tick /\ \E i \in DOMAIN layers, d \in {"up", "down"} : handleMoveLayer(i, d) /\ Handled
    \/ Tick /\ \E id \in IdsOf(layers), o \in OpacityValues :
                  handleLayerOpacityChange(id, o) /\ Handled
    \/ Tick /\ \E id \in IdsOf(layers), m \in BlendModes :
                  handleLayerBlendChange(id, m) /\ Handled
    \/ Tick /\ \E m \in BlendModes \cup {"none"} : hoverBlendMode(m)
    \/ Tick /\ handleClearLayer /\ Handled
    \/ Tick /\ ~isCropping /\ \E pt \in PointerPoints : handlePointerDown(pt) /\ Handled
    \/ Tick /\ ~isCropping /\ \E pt \in PointerPoints : handlePointerMove(pt) /\ Handled
    \/ Tick /\ handlePointerUp /\ Handled
    \/ Tick /\ \E d \in Degrees : handleRotateCanvas(d) /\ Handled
    \/ Tick /\ \E size \in ResizeSizes : applyResize(size[1], size[2]) /\ Handled

SpecRender == Init /\ [][NextRender]_vars /\ WF_vars(Free /\ renderTick)

\* the remote edit: a document is opened, an edit is asked for and answered,
\* and a result on offer is applied or dismissed
NextEdit ==
    \/ Free /\ handleEditFileChange /\ Handled
    \/ Free /\ initEditorWithImage /\ Handled
    \/ Free /\ initialSnapshot /\ Handled
    \/ Free /\ insertOnload /\ Handled
    \/ Tick /\ closeSession /\ Handled
    \/ Tick /\ handleMagicEdit /\ Handled
    \/ Tick /\ handleRemoveBackground /\ Handled
    \/ Free /\ \E kind \in EditKinds, outcome \in EditOutcomes :
                  editImageSettled(kind, outcome) /\ Handled
    \/ Tick /\ closeResults /\ Handled
    \/ Tick /\ ResultsOffered /\ handleApplyResult /\ Handled
    \/ Tick /\ \E id \in IdsOf(layers) : handleToggleVisibility(id) /\ Handled
    \/ Tick /\ handleUndo /\ Handled

SpecEdit == Init /\ [][NextEdit]_vars

\* the viewport: a document is opened, painted on, panned and zoomed, with
\* undo and redo
NextView ==
    \/ Free /\ handleEditFileChange /\ Handled
    \/ Free /\ initEditorWithImage /\ Handled
    \/ Free /\ initialSnapshot /\ Handled
    \/ Free /\ \E type \in BrushTypes : setBrushType(type) /\ Handled
    \/ Tick /\ ~isCropping /\ \E pt \in PointerPoints : handlePointerDown(pt) /\ Handled
    \/ Tick /\ ~isCropping /\ \E pt \in PointerPoints : handlePointerMove(pt) /\ Handled
    \/ Tick /\ handlePointerUp /\ Handled
    \/ Tick /\ \E d \in PinchDists, c \in PinchCentres : pinchStart(d, c) /\ Handled
    \/ Tick /\ \E d \in PinchDists, c \in PinchCentres : pinchMove(d, c) /\ Handled
    \/ Tick /\ handleZoomIn /\ Handled
    \/ Tick /\ handleZoomOut /\ Handled
    \/ Tick /\ handleResetZoom /\ Handled
    \/ Tick /\ \E dy \in WheelDeltas, at \in WheelPoints, ctrlKey \in BOOLEAN :
                  handleWheel(0, dy, at, ctrlKey) /\ Handled
    \/ Tick /\ handleUndo /\ Handled
    \/ Tick /\ handleRedo /\ Handled

SpecView == Init /\ [][NextView]_vars

\* strokes and crop mode: a document is opened and painted on, and crop mode
\* is entered and left
NextStroke ==
    \/ Free /\ handleEditFileChange /\ Handled
    \/ Free /\ initEditorWithImage /\ Handled
    \/ Free /\ initialSnapshot /\ Handled
    \/ Tick /\ \E pt \in PointerPoints : handlePointerDown(pt) /\ Handled
    \/ Tick /\ \E pt \in PointerPoints : handlePointerMove(pt) /\ Handled
    \/ Tick /\ handlePointerUp /\ Handled
    \/ Tick /\ startCrop /\ Handled
    \/ Tick /\ cancelCrop /\ Handled

SpecStroke == Init /\ [][NextStroke]_vars

\* a document as it is after an image was opened and n - 1 layers were
\* added, the viewport at t
OrderedLayers ==
    <<createLayer(Name("Background", 0), 1, 1),
      createLayer(Name("Layer", 2), 2, 2),
      createLayer(Name("Layer", 3), 3, 3)>>

OrderedCanvases ==
    Extend(Extend(Extend(<<>>, 1, SourceImage), 2, NewCanvas(SourceImage.w, SourceImage.h)),
           3, NewCanvas(SourceImage.w, SourceImage.h))

RECURSIVE OrderedHistory(_, _)
OrderedHistory(ver, n) ==
    IF n = 0 THEN [threw |-> FALSE, history |-> <<>>, historyStep |-> -1]
    ELSE LET r == OrderedHistory(ver, n - 1)
         IN  saveHistory(ver, SubSeq(OrderedLayers, 1, n), OrderedCanvases,
                         SourceImage.w, SourceImage.h,
                         r.history, r.historyStep, r.history, r.historyStep)

OpenedDocument(n, t) ==
    /\ version \in Versions
    /\ layers = SubSeq(OrderedLayers, 1, n)
    /\ canvases = [k \in 1 .. n |-> OrderedCanvases[k]]
    /\ activeLayerId = OrderedLayers[n].id
    /\ canvasSize = [width |-> SourceImage.w, height |-> SourceImage.h]
    /\ history = OrderedHistory(version, n).history
    /\ historyStep = OrderedHistory(version, n).historyStep
    /\ isDrawing = FALSE
    /\ isCropping = FALSE
    /\ cropRect = {}
    /\ cropInteraction = "none"
    /\ cropStart = {}
    /\ loadTask = {}
    /\ timerTask = {}
    /\ insertTask = {}
    /\ mainCanvas = {IF version = "App" THEN Blank(SourceImage.w, SourceImage.h)
                     ELSE Blank(DefaultWidth, DefaultHeight)}
    /\ needsComposite = TRUE
    /\ previewBlendMode = "none"
    /\ rendered = FALSE
    /\ loopRuns = TRUE
    /\ editTask = {}
    /\ isEditing = FALSE
    /\ editedImages = <<>>
    /\ brushType = "pen"
    /\ transform = t
    /\ isPanning = FALSE
    /\ panStart = [x |-> 0, y |-> 0]
    /\ pinchRef = {}
    /\ draggedLayerIndex = {}
    /\ savedSession = {}
    /\ symmetry = "none"
    /\ radialCount = 4
    /\ cloneSource = {}
    /\ isSettingCloneSource = FALSE
    /\ cloneOffset = [x |-> 0, y |-> 0]
    /\ nOps = 0
    /\ lastOp = [op |-> IF n = 1 THEN "initialSnapshot" ELSE "handleAddLayer",
                 step |-> n - 2, len |-> n - 1, snap |-> TRUE]

\* the zoom: a document is open, at a scale the buttons, the wheel or two
\* fingers have left it at; it is zoomed with the buttons, the wheel and two
\* fingers, saved, closed and loaded again
StartScales(ver) ==
    IF ver = "App"
    THEN {ScaleUnit \div 10, ScaleUnit, 5 * ScaleUnit, 20 * ScaleUnit}
    ELSE {ScaleUnit \div 10, ScaleUnit, 10 * ScaleUnit}

ZoomWheelDeltas == {-100, 100, 1000}
ZoomPinchDists == {Unit, 40 * Unit}

InitZoom ==
    \E scale \in StartScales("App") \cup StartScales("V2") :
        /\ OpenedDocument(1, [Identity EXCEPT !.scale = scale])
        /\ scale \in StartScales(version)

NextZoom ==
    \/ Free /\ handleEditFileChange /\ Handled
    \/ Free /\ initEditorWithImage /\ Handled
    \/ Free /\ initialSnapshot /\ Handled
    \/ Tick /\ handleZoomIn /\ Handled
    \/ Tick /\ handleZoomOut /\ Handled
    \/ Tick /\ handleResetZoom /\ Handled
    \/ Tick /\ \E dy \in ZoomWheelDeltas : handleWheel(0, dy, <<0, 0>>, TRUE) /\ Handled
    \/ Tick /\ \E d \in ZoomPinchDists : pinchStart(d, <<0, 0>>) /\ Handled
    \/ Tick /\ \E d \in ZoomPinchDists : pinchMove(d, <<0, 0>>) /\ Handled
    \/ Free /\ handlePointerUp /\ Handled
    \/ Tick /\ saveSession /\ Handled
    \/ Tick /\ closeSession /\ Handled
    \/ Free /\ loadSession /\ Handled

SpecZoom == InitZoom /\ [][NextZoom]_vars

\* the layer order: a document of three layers, whose layers are moved and
\* dragged
InitOrder == OpenedDocument(Len(OrderedLayers), Identity)

\* nothing else can be clicked while a row is dragged
NextOrder ==
    \/ Tick /\ draggedLayerIndex = {}
            /\ \E id \in IdsOf(layers) \ {activeLayerId} : selectLayer(id) /\ Handled
    \/ Tick /\ draggedLayerIndex = {}
            /\ \E i \in DOMAIN layers, d \in {"up", "down"} :
                   handleMoveLayer(i, d) /\ Handled
    \/ Free /\ \E i \in DOMAIN layers : layerDragStart(i) /\ Handled
    \/ Free /\ layerDragEnd /\ Handled
    \/ Tick /\ \E i \in DOMAIN layers : handleLayerDrop(i) /\ Handled

SpecOrder == InitOrder /\ [][NextOrder]_vars

\* symmetry: a document is opened, the symmetry and the radial count are
\* set, and strokes are painted
NextSymmetry ==
    \/ Free /\ handleEditFileChange /\ Handled
    \/ Free /\ initEditorWithImage /\ Handled
    \/ Free /\ initialSnapshot /\ Handled
    \/ Free /\ \E mode \in SymmetryModes \ {symmetry} : setSymmetry(mode) /\ Handled
    \/ Free /\ \E count \in RadialCounts \ {radialCount} : setRadialCount(count) /\ Handled
    \/ Tick /\ \E pt \in PointerPoints : handlePointerDown(pt) /\ Handled
    \/ Tick /\ \E pt \in PointerPoints : handlePointerMove(pt) /\ Handled
    \/ Tick /\ handlePointerUp /\ Handled

SpecSymmetry == Init /\ [][NextSymmetry]_vars

\* the clone stamp: a document is open in V2 and on screen, the clone stamp
\* is picked, its source is set and strokes are painted
CloneBrushTypes == {"pen", "clone"}

InitClone == OpenedDocument(1, Identity) /\ version = "V2"

NextClone ==
    \/ Free /\ renderTick
    \/ Free /\ \E type \in CloneBrushTypes : setBrushType(type) /\ Handled
    \/ Free /\ setIsSettingCloneSource /\ Handled
    \/ Tick /\ \E pt \in PointerPoints : handlePointerDown(pt) /\ Handled
    \/ Tick /\ \E pt \in PointerPoints : handlePointerMove(pt) /\ Handled
    \/ Tick /\ handlePointerUp /\ Handled

SpecClone == InitClone /\ [][NextClone]_vars

(***************************************************************************)
(* Claims.                                                                 *)
(***************************************************************************)
\* the document a user sees: canvas size, layer order and every layer's
\* id, name, visibility, opacity, blend mode and pixels
Document(ls, heap, size) ==
    [size |-> size,
     layers |-> [i \in DOMAIN ls |->
                   [id |-> ls[i].id, name |-> ls[i].name, visible |-> ls[i].visible,
                    opacity |-> ls[i].opacity, blendMode |-> ls[i].blendMode,
                    surface |-> heap[ls[i].canvas]]]]

\* C1: in every reachable state the history holds at most HistoryLimit
\* states (10 in App, 20 in V2), whatever snapshots, undos, redos, document
\* loads and session closes came before.
HistoryBounded == Len(history) <= HistoryLimit(version)

\* a snapshot was pushed on a full stack and the oldest state went
EvictionHappened ==
    /\ lastOp.op = "handleToggleVisibility"
    /\ lastOp.len = HistoryLimit(version)
    /\ lastOp.step = HistoryLimit(version) - 1
    /\ Len(history) = HistoryLimit(version)

\* C2: whenever the history is not empty the step pointer is an index of
\* it, 0 <= historyStep <= length - 1, the deferred initial snapshot of a
\* document load included.
PointerValid ==
    Len(history) > 0 => (0 <= historyStep /\ historyStep <= Len(history) - 1)

\* C3: when the last thing that happened is a snapshot-taking edit, an undo
\* immediately followed by a redo leaves the document (canvas size, layer
\* order, ids, names, visibility, opacity, blend modes, pixels) as it was
\* before the undo.
UndoRedoRoundTrip ==
    (EditorMounted /\ lastOp.snap) =>
        LET u == undo(version, history, historyStep, canvases, layers,
                      canvasSize, activeLayerId)
            r == redo(version, history, u.historyStep, u.heap, u.layers,
                      u.canvasSize, u.activeLayerId)
        IN  Document(r.layers, r.heap, r.canvasSize)
                = Document(layers, canvases, canvasSize)

\* C4: a snapshot taken while the pointer is at an index k below the last
\* one leaves the first k+1 states followed by one new state, with the
\* pointer on the new state, so that a redo right after it changes nothing.
SnapshotTruncatesRedoBranch ==
    [][(lastOp'.snap /\ 0 <= historyStep /\ historyStep < Len(history) - 1) =>
          /\ Len(history') = historyStep + 2
          /\ SubSeq(history', 1, historyStep + 1) = SubSeq(history, 1, historyStep + 1)
          /\ historyStep' = historyStep + 1]_vars

\* C5: a snapshot that would make the history longer than the limit N
\* removes the oldest state: the length stays N and the pointer stays at
\* N-1, on the state just pushed.
EvictionKeepsPointerOnNewest ==
    [][(lastOp'.snap /\ Len(Slice(history, historyStep + 1)) = HistoryLimit(version)) =>
          /\ Len(history') = HistoryLimit(version)
          /\ SubSeq(history', 1, Len(history') - 1) = Tail(history)
          /\ historyStep' = HistoryLimit(version) - 1]_vars

\* C6: an undo with the pointer at 0 or on an empty history, and a redo with
\* the pointer at the last index, change nothing: layers, canvas size, active
\* layer, history and pointer stay as they are.
UndoRedoNoOpAtEnds ==
    [][/\ (lastOp'.op = "handleUndo" /\ historyStep <= 0) =>
              UNCHANGED <<layers, canvases, canvasSize, activeLayerId, history, historyStep>>
       /\ (lastOp'.op = "handleRedo" /\ historyStep >= Len(history) - 1) =>
              UNCHANGED <<layers, canvases, canvasSize, activeLayerId, history, historyStep>>
      ]_vars

\* an undo found the pointer at 0 with states above it
UndoAtFirstStep ==
    lastOp.op = "handleUndo" /\ lastOp.step = 0 /\ lastOp.len > 1

\* C7: a stored history state never changes, and it leaves the history only
\* by eviction of the oldest state, by truncation of the states above the
\* pointer when a snapshot is pushed, or by the reset of a document load or
\* session close.
StoredStatesLeaveByRuleOnly ==
    [][\/ history' = history
       \/ history' = <<>> /\ lastOp'.op \in {"initEditorWithImage", "closeSession"}
       \/ /\ Len(history') > 0
          /\ LET base == Slice(history, historyStep + 1)
                 pushed == Append(base, history'[Len(history')])
             IN  \/ history' = pushed
                 \/ Len(pushed) > HistoryLimit(version) /\ history' = Tail(pushed)
      ]_vars

\* C8: in every reachable state every layer's surface has the width and the
\* height of the canvas.
LayersHaveCanvasSize ==
    \A i \in DOMAIN layers :
        /\ canvases[layers[i].canvas].w = canvasSize.width
        /\ canvases[layers[i].canvas].h = canvasSize.height

\* C9: whenever there is a layer the active layer id names a layer of the
\* document; and when a delete, an undo or a redo leaves a layer list that
\* lacks the layer that was active, the topmost layer becomes active.
ActiveLayerInDocument ==
    [][/\ Len(layers') > 0 => activeLayerId' \in IdsOf(layers')
       /\ (/\ lastOp'.op \in {"handleDeleteLayer", "handleUndo", "handleRedo"}
           /\ Len(layers') > 0
           /\ activeLayerId \notin IdsOf(layers')) =>
              activeLayerId' = layers'[Len(layers')].id
      ]_vars

\* an undo took away the layer added last, which was on top
UndoRemovedLayer ==
    /\ lastOp.op = "handleUndo"
    /\ lastOp.step = historyStep + 1
    /\ Len(history) > historyStep + 1
    /\ Len(layers) > 0
    /\ LET undone == history[historyStep + 2].layers
       IN  Len(undone) > 0 /\ undone[Len(undone)].id \notin IdsOf(layers)

\* C10: crop, resize and rotate are all-or-nothing: after one of them either
\* every layer has a new surface of the size the canvas now has, the layers
\* otherwise as before, or layers, surfaces, canvas size, history and pointer
\* are exactly as before.
TransformsAllOrNothing ==
    [][lastOp'.op \in {"applyCrop", "applyResize", "handleRotateCanvas"} =>
          \/ /\ UNCHANGED <<layers, canvasSize, history, historyStep>>
             /\ \A i \in DOMAIN layers :
                    canvases'[layers[i].canvas] = canvases[layers[i].canvas]
          \/ /\ Len(layers') = Len(layers)
             /\ \A i \in DOMAIN layers' :
                    /\ layers'[i].canvas \notin DOMAIN canvases
                    /\ canvases'[layers'[i].canvas].w = canvasSize'.width
                    /\ canvases'[layers'[i].canvas].h = canvasSize'.height
                    /\ [layers'[i] EXCEPT !.canvas = 0] = [layers[i] EXCEPT !.canvas = 0]
      ]_vars

\* a crop that rounds to no width: layers and canvas size changed, and
\* saveHistory threw
CropToNothing ==
    /\ lastOp.op = "applyCrop"
    /\ ~lastOp.snap
    /\ Len(layers) > 0
    /\ canvasSize.width = 0 \/ canvasSize.height = 0

\* C11: a resize or a crop whose resulting width or height is not positive
\* is rejected: after a resize or a crop no layer has a surface without width
\* or height, and a canvas size that is not positive is one the operation
\* left as it found it, with layers, history and pointer.
NonPositiveSizeRejected ==
    [][lastOp'.op \in {"applyCrop", "applyResize"} =>
          /\ \A i \in DOMAIN layers' :
                 /\ canvases'[layers'[i].canvas].w > 0
                 /\ canvases'[layers'[i].canvas].h > 0
          /\ (canvasSize'.width <= 0 \/ canvasSize'.height <= 0) =>
                 UNCHANGED <<layers, canvasSize, history, historyStep>>
      ]_vars

\* C12: a crop that goes through leaves a canvas of floor(w) x floor(h), and
\* when the rectangle lies on whole pixels every new pixel (i, j) of every
\* layer is the layer's old pixel (x + i, y + j).
CropIsFloorAndCopy ==
    [][(lastOp'.op = "applyCrop" /\ layers' # layers) =>
          \A r \in cropRect :
              /\ canvasSize' = [width |-> Floor(r.w), height |-> Floor(r.h)]
              /\ (\A t \in {r.x, r.y, r.w, r.h} : t % Unit = 0) =>
                     \A k \in DOMAIN layers' :
                         \A p \in Pixels(canvasSize'.width, canvasSize'.height) :
                             canvases'[layers'[k].canvas].px[p]
                                 = Sample(CanvasOf(k), Floor(r.x) + p[1], Floor(r.y) + p[2])
      ]_vars

\* the pixels the pen has changed on the background of a loaded document
DabbedPixels ==
    {p \in Pixels(SourceImage.w, SourceImage.h) : CanvasOf(1).px[p] # SourceImage.px[p]}

\* a freshly loaded document after its first dab: the stroke has ended and
\* the initial snapshot and the dab's snapshot have both been taken
FirstDabDone ==
    /\ Len(layers) = 1
    /\ canvasSize = [width |-> SourceImage.w, height |-> SourceImage.h]
    /\ CanvasOf(1).w = SourceImage.w /\ CanvasOf(1).h = SourceImage.h
    /\ Cardinality(DabbedPixels) = 1
    /\ ~isDrawing
    /\ timerTask = {}
    /\ lastOp.op \in {"handlePointerUp", "initialSnapshot"}
    /\ lastOp.snap
    /\ lastOp.len <= 1

\* C13: after the first dab on a freshly loaded document and its pointer-up,
\* undo gives back the background as loaded and a following redo gives the
\* dab back, in whichever order the initial snapshot and the dab's snapshot
\* were taken.
DabUndoRedo ==
    FirstDabDone =>
        LET u == undo(version, history, historyStep, canvases, layers,
                      canvasSize, activeLayerId)
            r == redo(version, history, u.historyStep, u.heap, u.layers,
                      u.canvasSize, u.activeLayerId)
        IN  /\ Len(u.layers) = 1
            /\ u.heap[u.layers[1].canvas] = SourceImage
            /\ Len(r.layers) = 1
            /\ r.heap[r.layers[1].canvas] = CanvasOf(1)

\* what renderCompositeCanvas shows of the document as it is
Composite(out) ==
    renderCompositeCanvas(version, out, layers, canvases, activeLayerId,
                          previewBlendMode, canvasSize)

\* C14: composing a document gives the same pixels whatever the output
\* surface held before: the composition over what the main canvas shows is
\* the composition over an empty canvas of its size.
ComposeIsDeterministic ==
    \A out \in mainCanvas :
        ~RenderThrows(layers, canvases) => Composite(out) = Composite(Blank(out.w, out.h))

\* the main canvas shows an earlier composition that is not the document's
StaleScreen ==
    /\ needsComposite
    /\ ~RenderThrows(layers, canvases)
    /\ \E out \in mainCanvas : out.px # NoPixels /\ Composite(out) # out

\* C15: when a remote edit fails or returns no image, the layers, their
\* pixels, the active layer, the canvas size, the history and its pointer are
\* as they were, no image load is started, and no result comes on offer.
EditFailureInstallsNothing ==
    [][(\/ lastOp'.op = "editImageThrew"
        \/ lastOp'.op = "editImageReturned" /\ editedImages' = <<>>)
       => /\ UNCHANGED <<layers, activeLayerId, canvasSize, history, historyStep>>
          /\ Document(layers', canvases', canvasSize') = Document(layers, canvases, canvasSize)
          /\ insertTask' = insertTask
          /\ (editedImages = <<>> => ~ResultsOffered')]_vars

\* an edit of a document that has history failed
EditFailed ==
    /\ lastOp.op = "editImageThrew"
    /\ EditorMounted
    /\ Len(history) > 0
    /\ ~ResultsOffered

\* a step of a viewport operation: a zoom button, the wheel, the reset, a
\* pinch, the pointer going down with the pan tool, moving while panning, and
\* lifting at the end of a pan or a pinch with no stroke in progress
ViewportStep ==
    \/ lastOp'.op \in {"handleZoomIn", "handleZoomOut", "handleResetZoom",
                       "handleWheel", "pinchStart", "pinchMove"}
    \/ lastOp'.op = "handlePointerDown" /\ ~isCropping /\ brushType = "pan"
    \/ lastOp'.op = "handlePointerMove" /\ isPanning /\ ~(version = "App" /\ CropDrags)
    \/ lastOp'.op = "handlePointerUp" /\ (isPanning \/ pinchRef # {}) /\ ~isDrawing

LayerOps == {"handleAddLayer", "handleDeleteLayer", "handleToggleVisibility",
             "handleLayerOpacityChange", "handleLayerBlendChange",
             "handleMoveLayer", "handleClearLayer"}

\* the step pushed exactly one history state, the document as it now is
PushedDocument ==
    /\ lastOp'.snap
    /\ LET kept == Slice(history, historyStep + 1)
           new == HistoryState(layers', canvases', canvasSize'.width, canvasSize'.height)
       IN  /\ history' \in {Append(kept, new), Tail(Append(kept, new))}
           /\ history'[Len(history')] = new

\* C17: a layer operation (add, delete, toggle visibility, set opacity, set
\* blend mode, reorder, clear the active layer) that changes the document
\* pushes exactly one new history state, equal to the document after it.
LayerOpsSnapshot ==
    [][(/\ lastOp'.op \in LayerOps
        /\ Document(layers', canvases', canvasSize')
               # Document(layers, canvases, canvasSize))
       => PushedDocument]_vars

\* C18: the pointer-up or pointer-leave that follows the pointer-down of a
\* stroke ends the stroke and pushes exactly one history state, the document
\* with the stroke on it; the pointer going down or moving pushes none, and a
\* pointer-up or pointer-leave with no stroke in progress pushes none.
StrokeSnapshotsOnce ==
    [][/\ lastOp'.op = "handlePointerUp"
          => IF isDrawing
             THEN ~isDrawing' /\ PushedDocument
             ELSE UNCHANGED <<history, historyStep>>
       /\ lastOp'.op \in {"handlePointerDown", "handlePointerMove"}
          => UNCHANGED <<history, historyStep>>]_vars

\* C19: while the editor is shown, a render tick that finds the dirty flag set
\* recomposes the main canvas from the document and clears the flag, a tick
\* that finds it clear recomposes nothing and leaves the canvas and the flag
\* alone, and nothing but a tick recomposes, so that the changes between two
\* ticks cost one recomposition at most.
TickRecomposesWhenDirty ==
    [][/\ (lastOp'.op = "renderTick" /\ mainCanvas # {} /\ needsComposite)
          => /\ rendered'
             /\ ~needsComposite'
             /\ \A out \in mainCanvas : mainCanvas' = {Composite(out)}
       /\ (lastOp'.op = "renderTick" /\ ~needsComposite)
          => ~rendered' /\ UNCHANGED <<mainCanvas, needsComposite>>
       /\ lastOp'.op # "renderTick" => ~rendered']_vars

\* the dirty flag is clear and the main canvas shows the composition of the
\* document as it is
ScreenShowsDocument ==
    mainCanvas # {} =>
        /\ ~needsComposite
        /\ \A out \in mainCanvas : out = Composite(out)

\* C20: with the render ticks kept firing, once the changes stop the dirty
\* flag is clear and the main canvas shows the composition of the document,
\* and stays so: no change is left unrendered.
EveryChangeGetsRendered == <>[]ScreenShowsDocument

\* C21: while the document is open and the active layer id names no layer of
\* it, a pointer-down with a painting tool and a clear-layer request change
\* nothing: no stroke starts, every layer keeps its pixels, and no history
\* state is pushed.
NoActiveLayerNoOp ==
    [][(/\ Len(layers) > 0
        /\ activeLayerId \notin IdsOf(layers)
        /\ \/ lastOp'.op = "handlePointerDown" /\ ~isCropping /\ brushType # "pan"
           \/ lastOp'.op = "handleClearLayer") =>
           /\ UNCHANGED <<isDrawing, layers, history, historyStep>>
           /\ \A i \in DOMAIN layers :
                  canvases'[layers[i].canvas] = canvases[layers[i].canvas]
           /\ ~lastOp'.snap
      ]_vars

\* the pointer went down with a painting tool, or the layer was to be
\* cleared, while the active layer id named a layer that had left the
\* document
ActedWithoutActiveLayer ==
    /\ lastOp.op \in {"handlePointerDown", "handleClearLayer"}
    /\ Len(layers) > 0
    /\ activeLayerId \notin IdsOf(layers)
    /\ ~isCropping /\ brushType # "pan"

PositionOf(ls, id) == CHOOSE i \in DOMAIN ls : ls[i].id = id

Moved ==
    IF lastOp'.op = "handleMoveLayer" THEN {activeLayerId}
    ELSE {layers[i].id : i \in draggedLayerIndex \cap DOMAIN layers}

ReorderMovesOneLayer ==
    [][lastOp'.op \in {"handleMoveLayer", "handleLayerDrop"} =>
          /\ Len(layers') = Len(layers)
          /\ \A i \in DOMAIN layers : \E j \in DOMAIN layers' : layers'[j] = layers[i]
          /\ IF Moved = {} THEN layers' = layers
             ELSE \A id \in Moved :
                    /\ Filter(layers', id) = Filter(layers, id)
                    /\ IF lastOp'.op = "handleLayerDrop"
                       THEN PositionOf(layers', id) = lastOp'.to
                       ELSE PositionOf(layers', id) - PositionOf(layers, id) \in {-1, 1}
      ]_vars

\* the bottom layer was dragged to the top, past the two others
DraggedPastTwo ==
    /\ lastOp.op = "handleLayerDrop"
    /\ lastOp.snap
    /\ lastOp.to = 3
    /\ [i \in DOMAIN layers |-> layers[i].id] = <<2, 3, 1>>

ScaleRange(ver) ==
    (ScaleUnit \div 10) .. (IF ver = "App" THEN 20 * ScaleUnit ELSE 10 * ScaleUnit)

ScaleInRange == transform.scale \in ScaleRange(version)

\* the scale stopped at an end of the range
ScaleAtAnEnd ==
    /\ lastOp.op \in {"handleZoomIn", "handleZoomOut", "handleWheel", "pinchMove"}
    /\ \/ transform.scale = ScaleUnit \div 10
       \/ transform.scale = IF version = "App" THEN 20 * ScaleUnit ELSE 10 * ScaleUnit

\* C29: the zoom-in button never leaves a smaller scale than it found and
\* the zoom-out button never a larger one, whatever set the scale it found.
ZoomButtonsAreMonotone ==
    [][/\ lastOp'.op = "handleZoomIn" => transform'.scale >= transform.scale
       /\ lastOp'.op = "handleZoomOut" => transform'.scale <= transform.scale
      ]_vars

\* C26: the points of a stroke under symmetry: one with no symmetry, two
\* with a vertical or horizontal mirror, N with radial symmetry of N; the
\* first is the pointer itself, and with radial symmetry of 4 the others are
\* the pointer turned by 90, 180 and 270 degrees about the centre of the
\* canvas, each as far from the centre as the pointer.
QuarterTurn(d) == <<-d[2], d[1]>>

Distance2(d) == d[1] * d[1] + d[2] * d[2]

SymmetricPointsOf(pt) ==
    LET centre == <<(canvasSize.width * Unit) \div 2, (canvasSize.height * Unit) \div 2>>
        d == <<pt[1] - centre[1], pt[2] - centre[2]>>
        points == getSymmetricPoints(symmetry, radialCount, canvasSize, pt)
        Offset(k) == <<points[k][1] - centre[1], points[k][2] - centre[2]>>
    IN  /\ Len(points) = CASE symmetry = "none" -> 1
                            [] symmetry \in {"vertical", "horizontal"} -> 2
                            [] symmetry = "radial" -> radialCount
        /\ points[1] = pt
        /\ (symmetry = "radial" /\ radialCount = 4) =>
               /\ Offset(2) = QuarterTurn(d)
               /\ Offset(3) = QuarterTurn(QuarterTurn(d))
               /\ Offset(4) = QuarterTurn(QuarterTurn(QuarterTurn(d)))
               /\ \A k \in 1 .. 4 : Distance2(Offset(k)) = Distance2(d)

CloneOffsetFixedForStroke ==
    [][CloneBrush =>
          /\ (lastOp'.op = "handlePointerDown" /\ cloneSource' # cloneSource)
                 => /\ canvases' = canvases
                    /\ isDrawing' = isDrawing
                    /\ history' = history
          /\ (isDrawing /\ isDrawing') => cloneOffset' = cloneOffset]_vars

\* a second pointer-down came while a clone stroke was being painted
ClonePointerDownInStroke ==
    /\ CloneBrush /\ isDrawing
    /\ lastOp.op = "handlePointerDown"
    /\ nOps = MaxOps

\* C28: when the image of "Add Image as Layer" or of an applied result has
\* loaded, its layer goes on top of the layers the document has at that
\* moment, the history states up to the pointer are all still there, and the
\* new layer's surface has the canvas size of that moment, also when the
\* load ends right after a stroke, an added or deleted layer, a rotation, a
\* crop, a resize, an undo or a redo
InterveningEdits ==
    {"handlePointerUp", "handleAddLayer", "handleDeleteLayer", "handleRotateCanvas",
     "applyCrop", "applyResize", "handleUndo", "handleRedo"}

InsertionLandsOnCurrentDocument ==
    [][(lastOp.op \in InterveningEdits /\ lastOp'.op = "insertOnload") =>
          /\ Len(layers') = Len(layers) + 1
          /\ SubSeq(layers', 1, Len(layers)) = layers
          /\ Len(history') > historyStep
          /\ SubSeq(history', 1, historyStep + 1) = SubSeq(history, 1, historyStep + 1)
          /\ LET top == canvases'[layers'[Len(layers')].canvas]
             IN  top.w = canvasSize'.width /\ top.h = canvasSize'.height]_vars

\* C30: a pinch with two fingers paints nothing and pushes no history state:
\* the first finger's touch-start has begun no stroke when the second finger's
\* touch-start begins the pinch, the second touch-start and the moves of the
\* pinch leave every layer and the history as they were, and so does the
\* touch-end that ends the pinch
PinchGestureLeavesDocument ==
    [][/\ (lastOp.op = "handlePointerDown" /\ lastOp'.op = "pinchStart") => ~isDrawing
       /\ \/ lastOp'.op \in {"pinchStart", "pinchMove"}
          \/ lastOp'.op = "handlePointerUp" /\ pinchRef # {}
          => /\ UNCHANGED <<layers, canvasSize, history, historyStep>>
             /\ Document(layers', canvases', canvasSize')
                    = Document(layers, canvases, canvasSize)]_vars

=========================================================================
